---- MODULE Spec2Model ----
(***************************************************************************)
(* Model of the one-word limit-down monitor: the StrategyEngine state      *)
(* machine (src/src/engine.py), the single-day replay runner               *)
(* (src/src/backtest/runner.py) and the live loop (src/src/main.py).       *)
(*                                                                         *)
(* Python dicts are functions whose DOMAIN is the set of keys; None is a   *)
(* missing key or the empty set of events.  Floats that are ratios of      *)
(* integers are kept as [num, den] and compared by cross-multiplication.   *)
(* A timestamp is [minute, second]; _minute_key zeroes the second.         *)
(***************************************************************************)
EXTENDS Integers, Sequences, FiniteSets, TLC

\* ------------------------------------------------------------------ bounds
\* the session clock runs over minutes 0..MaxMinute (0..1 with two symbols)
MaxMinute == 2
\* seconds 0..MaxSecond inside one minute
MaxSecond == 1
\* a provider returns at most MaxBars minute bars for one day
MaxBars == 3
\* the rule evaluator is applied to ask sizes 0..MaxAsk and to cumulative
\* volumes 0..MaxVolume
MaxAsk == 2
MaxVolume == 3
\* the longest session of evaluate and flush_pending calls that is followed
MaxOps == 4

\* --------------------------------------------------------------- constants
RULE_BUY_FLOW == "buy_flow_breakout"
RULE_SELL1_DROP == "sell1_drop"
RULE_COMBINED == "buy_flow_breakout_and_sell1_drop"
ALL_RULES == {RULE_BUY_FLOW, RULE_SELL1_DROP}

\* the default ask_drop_threshold 0.5, as the ratio 1/2
AskDropThresholdNum == 1
AskDropThresholdDen == 2

Codes == {"600000", "000001"}
\* (current_price, high_price, limit_down_price): one-word, traded above the
\* limit, and below the limit without a breach
PriceCases == {<<10, 10, 10>>, <<10, 11, 10>>, <<9, 10, 10>>}

\* The input domains a run draws from.  Each profile keeps one part of the
\* input space wide and the rest narrow.
\*   rules: one symbol, every ask-size and volume step, both confirm settings
\*   pool:  two symbols side by side, one ask-size step, the volume constant
\*   clock: one symbol, several snapshots per minute at different seconds
Profiles ==
    {[name |-> "rules", codes |-> {"600000"}, seconds |-> {0},
      data_qualities |-> {"tick_a1v"}, asks |-> {0, 1, 2}, volumes |-> {0, 1, 3},
      confirm_minutes |-> {1, 2}, last_minute |-> MaxMinute],
     [name |-> "pool", codes |-> Codes, seconds |-> {0},
      data_qualities |-> {"tick_a1v"}, asks |-> {0, 2}, volumes |-> {1},
      confirm_minutes |-> {1}, last_minute |-> 1],
     [name |-> "clock", codes |-> {"600000"}, seconds |-> 0 .. MaxSecond,
      data_qualities |-> {"tick_a1v", "minute_proxy"}, asks |-> {0, 2}, volumes |-> {1},
      confirm_minutes |-> {1}, last_minute |-> 1]}

Max(a, b) == IF a >= b THEN a ELSE b

\* dict.get(key, default) and dict.pop(key, None)
DictGet(d, k, default) == IF k \in DOMAIN d THEN d[k] ELSE default
DictPop(d, k) == [x \in DOMAIN d \ {k} |-> d[x]]
DictSet(d, k, v) == [x \in DOMAIN d \cup {k} |-> IF x = k THEN v ELSE d[x]]
EmptyDict == [x \in {} |-> 0]

\* ------------------------------------------------------------- data model
PoolStock(code) == [code |-> code, name |-> code, is_st |-> FALSE, pool_type |-> "all"]

TsLess(a, b) == a.minute < b.minute \/ (a.minute = b.minute /\ a.second < b.second)

StockSnapshot(code, prices, ask_v1, volume, data_quality, ts) ==
    [code |-> code, name |-> code,
     current_price |-> prices[1], high_price |-> prices[2], limit_down_price |-> prices[3],
     ask_v1 |-> ask_v1, volume |-> volume, data_quality |-> data_quality, ts |-> ts]

is_one_word_limit_down(snapshot) ==
    /\ snapshot.current_price = snapshot.limit_down_price
    /\ snapshot.high_price = snapshot.limit_down_price

\* The declared fields of models.AlertEvent; the model ignores keyword
\* arguments that are not declared fields (pydantic's default).
AlertEventFields ==
    {"code", "name", "pool_type", "initial_ask_v1", "current_ask_v1", "drop_ratio",
     "initial_volume", "current_volume", "volume_change_ratio", "signal_ask_drop",
     "signal_volume_spike", "prev_window_ts", "curr_window_ts", "data_quality",
     "confidence", "trigger_ts", "reason"}
AlertEvent(kwargs) == [f \in AlertEventFields \cap DOMAIN kwargs |-> kwargs[f]]

\* ------------------------------------------------------------ the engine
\* a minute key that keeps the seconds
MinuteKey_KeepsSecond(ts) == ts

MinuteKey(ts) == [minute |-> ts.minute, second |-> 0]

\* a bucket stamped with its minute instead of the snapshot's time
BuildBucket_MinuteStamp(snapshot) ==
    [minute_key |-> MinuteKey(snapshot.ts),
     end_ts |-> MinuteKey(snapshot.ts),
     end_volume_total |-> Max(snapshot.volume, 0),
     last_ask_v1 |-> Max(snapshot.ask_v1, 0),
     data_quality |-> snapshot.data_quality]

BuildBucket(snapshot) ==
    [minute_key |-> MinuteKey(snapshot.ts),
     end_ts |-> snapshot.ts,
     end_volume_total |-> Max(snapshot.volume, 0),
     last_ask_v1 |-> Max(snapshot.ask_v1, 0),
     data_quality |-> snapshot.data_quality]

\* StrategyEngine.__init__ with ask_drop_threshold left at its default
NewEngine(confirm_minutes, min_abs_delta_ask) ==
    [ask_drop_threshold |-> [num |-> AskDropThresholdNum, den |-> AskDropThresholdDen],
     confirm_minutes |-> Max(confirm_minutes, 1),
     min_abs_delta_ask |-> Max(min_abs_delta_ask, 0),
     active_pool |-> EmptyDict,
     removed_pool |-> {},
     processed_set |-> {},
     fired_rules_map |-> EmptyDict,
     prev_bucket_map |-> EmptyDict,
     current_bucket_map |-> EmptyDict,
     sell1_confirm_count_map |-> EmptyDict]

\* a registration that keeps the fired marks and the silenced set
RegisterPool_KeepsMarks(e, stocks) ==
    [e EXCEPT !.active_pool = [c \in stocks |-> PoolStock(c)],
              !.removed_pool = {},
              !.prev_bucket_map = EmptyDict,
              !.current_bucket_map = EmptyDict,
              !.sell1_confirm_count_map = EmptyDict]

RegisterPool(e, stocks) ==
    [e EXCEPT !.active_pool = [c \in stocks |-> PoolStock(c)],
              !.removed_pool = {},
              !.processed_set = {},
              !.fired_rules_map = EmptyDict,
              !.prev_bucket_map = EmptyDict,
              !.current_bucket_map = EmptyDict,
              !.sell1_confirm_count_map = EmptyDict]

\* a listing that forgets the silenced set
MonitorableCodes_AllActive(e) == DOMAIN e.active_pool

MonitorableCodes(e) == {code \in DOMAIN e.active_pool : code \notin e.processed_set}

\* a reset that drops the buckets and counters of every symbol
ClearSymbolRuntimeState_AllSymbols(e, code) ==
    [e EXCEPT !.prev_bucket_map = EmptyDict,
              !.current_bucket_map = EmptyDict,
              !.sell1_confirm_count_map = EmptyDict]

\* a reset that keeps the previous bucket
ClearSymbolRuntimeState_KeepsPrevious(e, code) ==
    [e EXCEPT !.current_bucket_map = DictPop(@, code),
              !.sell1_confirm_count_map = DictPop(@, code)]

ClearSymbolRuntimeState(e, code) ==
    [e EXCEPT !.prev_bucket_map = DictPop(@, code),
              !.current_bucket_map = DictPop(@, code),
              !.sell1_confirm_count_map = DictPop(@, code)]

\* What a call returns and, as a trace of the call, the bucket pairs handed to
\* the rule evaluator and the buckets finalized.
NoReturn == [events |-> {}, pairs |-> {}, finalized |-> {}]

\* ask_delta / ask_base >= threshold, with ask_base >= 1
RatioGeq(num, den, threshold) == num * threshold.den >= threshold.num * den

\* a buy-flow signal without the test for a positive base
SignalBuyFlow_NoBase(fired_rules, previous, current) ==
    /\ RULE_BUY_FLOW \notin fired_rules
    /\ Max(current.end_volume_total - previous.end_volume_total, 0)
           > Max(previous.end_volume_total, 0)

\* a buy-flow signal that forgets the rule has fired
SignalBuyFlow_Refires(fired_rules, previous, current) ==
    LET cumulative_before == Max(previous.end_volume_total, 0)
        current_buy_volume == Max(current.end_volume_total - previous.end_volume_total, 0)
    IN  /\ cumulative_before > 0
        /\ current_buy_volume > cumulative_before

\* _emit_alert_if_hit, lines 121-127: the buy-flow signal
SignalBuyFlow(fired_rules, previous, current) ==
    LET cumulative_before == Max(previous.end_volume_total, 0)
        current_buy_volume == Max(current.end_volume_total - previous.end_volume_total, 0)
    IN  /\ RULE_BUY_FLOW \notin fired_rules
        /\ cumulative_before > 0
        /\ current_buy_volume > cumulative_before

\* an ask-drop test without the absolute floor
AskDropHit_NoFloor(e, previous, current) ==
    RatioGeq(previous.last_ask_v1 - current.last_ask_v1,
             Max(previous.last_ask_v1, 1), e.ask_drop_threshold)

\* lines 129-132: does the ask size drop enough on this pair
AskDropHit(e, previous, current) ==
    LET ask_base == Max(previous.last_ask_v1, 1)
        ask_delta == previous.last_ask_v1 - current.last_ask_v1
    IN  /\ RatioGeq(ask_delta, ask_base, e.ask_drop_threshold)
        /\ ask_delta >= e.min_abs_delta_ask

\* a counter that a miss leaves standing
HitCount_NoReset(e, code, ask_drop_hit) ==
    DictGet(e.sell1_confirm_count_map, code, 0) + (IF ask_drop_hit THEN 1 ELSE 0)

\* lines 134-137: the consecutive-hit counter after this pair
HitCount(e, code, ask_drop_hit) ==
    IF ask_drop_hit THEN DictGet(e.sell1_confirm_count_map, code, 0) + 1 ELSE 0

\* lines 140-144: the sell-one-drop signal
SignalSell1Drop(e, fired_rules, ask_drop_hit, hit_count) ==
    /\ RULE_SELL1_DROP \notin fired_rules
    /\ ask_drop_hit
    /\ hit_count >= e.confirm_minutes

\* a reason that names one rule only
AlertReason_OneRule(signal_buy_flow, signal_sell1_drop) ==
    IF signal_buy_flow THEN RULE_BUY_FLOW ELSE RULE_SELL1_DROP

\* lines 149-154
AlertReason(signal_buy_flow, signal_sell1_drop) ==
    IF signal_buy_flow /\ signal_sell1_drop THEN RULE_COMBINED
    ELSE IF signal_buy_flow THEN RULE_BUY_FLOW
    ELSE RULE_SELL1_DROP

\* lines 156-159
FiredAfter(fired_rules, signal_buy_flow, signal_sell1_drop) ==
    fired_rules
    \cup (IF signal_buy_flow THEN {RULE_BUY_FLOW} ELSE {})
    \cup (IF signal_sell1_drop THEN {RULE_SELL1_DROP} ELSE {})

\* a symbol that is never silenced, and one silenced by its first alert
ProcessedAfter_Never(processed_set, code, fired_rules) == processed_set
ProcessedAfter_AnyRule(processed_set, code, fired_rules) ==
    IF fired_rules # {} THEN processed_set \cup {code} ELSE processed_set

\* lines 161-162
ProcessedAfter(processed_set, code, fired_rules) ==
    IF ALL_RULES \subseteq fired_rules THEN processed_set \cup {code} ELSE processed_set

\* a divisor without the floor of 1
AskBase_NoFloor(previous) == previous.last_ask_v1

\* line 129: the divisor of the ask-change ratio
AskBase(previous) == Max(previous.last_ask_v1, 1)

EmitAlertIfHit(e, code, pool_stock, previous, current) ==
    LET fired_rules == DictGet(e.fired_rules_map, code, {})
        cumulative_before == Max(previous.end_volume_total, 0)
        current_buy_volume == Max(current.end_volume_total - previous.end_volume_total, 0)
        signal_buy_flow == SignalBuyFlow(fired_rules, previous, current)
        ask_base == AskBase(previous)
        ask_delta == previous.last_ask_v1 - current.last_ask_v1
        ask_drop_hit == AskDropHit(e, previous, current)
        hit_count == HitCount(e, code, ask_drop_hit)
        signal_sell1_drop == SignalSell1Drop(e, fired_rules, ask_drop_hit, hit_count)
        reason == AlertReason(signal_buy_flow, signal_sell1_drop)
        new_fired == FiredAfter(fired_rules, signal_buy_flow, signal_sell1_drop)
        e1 == [e EXCEPT !.fired_rules_map = DictSet(@, code, fired_rules),
                        !.sell1_confirm_count_map = DictSet(@, code, hit_count)]
        e2 == [e1 EXCEPT !.fired_rules_map = DictSet(@, code, new_fired),
                         !.processed_set = ProcessedAfter(@, code, new_fired)]
        event == AlertEvent(
            [code |-> code,
             name |-> pool_stock.name,
             pool_type |-> pool_stock.pool_type,
             initial_ask_v1 |-> previous.last_ask_v1,
             current_ask_v1 |-> current.last_ask_v1,
             drop_ratio |-> [num |-> ask_delta, den |-> ask_base],
             initial_volume |-> previous.end_volume_total,
             current_volume |-> current.end_volume_total,
             volume_change_ratio |->
                 [num |-> current.end_volume_total - previous.end_volume_total,
                  den |-> Max(previous.end_volume_total, 1)],
             signal_ask_drop |-> signal_sell1_drop,
             signal_volume_spike |-> FALSE,
             signal_buy_flow |-> signal_buy_flow,
             prev_window_ts |-> previous.end_ts,
             curr_window_ts |-> current.end_ts,
             data_quality |-> current.data_quality,
             confidence |-> IF current.data_quality = "tick_a1v" THEN "high" ELSE "low",
             trigger_ts |-> current.end_ts,
             reason |-> reason,
             trigger_rule |-> reason,
             current_buy_volume |->
                 IF signal_buy_flow THEN {current_buy_volume} ELSE {},
             cumulative_buy_volume_before |->
                 IF signal_buy_flow THEN {cumulative_before} ELSE {}])
        pair == [code |-> code, previous |-> previous, current |-> current]
    IN  IF ~signal_buy_flow /\ ~signal_sell1_drop
        THEN [e |-> e1, ret |-> [events |-> {}, pairs |-> {pair}, finalized |-> {}]]
        ELSE [e |-> e2, ret |-> [events |-> {event}, pairs |-> {pair}, finalized |-> {}]]

\* a first bucket that already counts as one hit
FinalizeCompletedBucket_SeedsOne(e, code, pool_stock, completed) ==
    LET done == [code |-> code, bucket |-> completed]
    IN  IF code \notin DOMAIN e.prev_bucket_map
        THEN [e |-> [e EXCEPT !.sell1_confirm_count_map = DictSet(@, code, 1)],
              ret |-> [events |-> {}, pairs |-> {}, finalized |-> {done}]]
        ELSE LET r == EmitAlertIfHit(e, code, pool_stock, e.prev_bucket_map[code], completed)
             IN  [e |-> r.e, ret |-> [r.ret EXCEPT !.finalized = {done}]]

FinalizeCompletedBucket(e, code, pool_stock, completed) ==
    LET done == [code |-> code, bucket |-> completed]
    IN  IF code \notin DOMAIN e.prev_bucket_map
        THEN [e |-> [e EXCEPT !.sell1_confirm_count_map = DictSet(@, code, 0)],
              ret |-> [events |-> {}, pairs |-> {}, finalized |-> {done}]]
        ELSE LET r == EmitAlertIfHit(e, code, pool_stock, e.prev_bucket_map[code], completed)
             IN  [e |-> r.e, ret |-> [r.ret EXCEPT !.finalized = {done}]]

\* a skip test that lets a silenced symbol through
Skipped_OnlyInactive(e, code) == code \notin DOMAIN e.active_pool

\* evaluate, line 203, and flush_pending, line 241: the symbol is skipped
Skipped(e, code) == code \notin DOMAIN e.active_pool \/ code \in e.processed_set

\* a breach test on the last price instead of the day's high
Breaches_OnLastPrice(snapshot) == snapshot.current_price > snapshot.limit_down_price

\* a breach test that also takes a high at the limit-down price
Breaches_AtLimit(snapshot) == snapshot.high_price >= snapshot.limit_down_price

\* evaluate, line 206: the symbol traded above its limit-down price
Breaches(snapshot) == snapshot.high_price > snapshot.limit_down_price

Evaluate(e, snapshot) ==
    LET code == snapshot.code
        incoming == BuildBucket(snapshot)
    IN  IF Skipped(e, code)
        THEN [e |-> e, ret |-> NoReturn]
        ELSE IF Breaches(snapshot)
        THEN [e |-> [ClearSymbolRuntimeState(e, code) EXCEPT
                        !.removed_pool = @ \cup {code},
                        !.active_pool = DictPop(@, code),
                        !.fired_rules_map = DictPop(@, code)],
              ret |-> NoReturn]
        ELSE IF ~is_one_word_limit_down(snapshot)
        THEN [e |-> ClearSymbolRuntimeState(e, code), ret |-> NoReturn]
        ELSE IF code \notin DOMAIN e.current_bucket_map
        THEN [e |-> [e EXCEPT !.current_bucket_map = DictSet(@, code, incoming)],
              ret |-> NoReturn]
        ELSE IF incoming.minute_key = e.current_bucket_map[code].minute_key
        THEN [e |-> [e EXCEPT !.current_bucket_map = DictSet(@, code, incoming)],
              ret |-> NoReturn]
        ELSE LET current == e.current_bucket_map[code]
                 r == FinalizeCompletedBucket(e, code, e.active_pool[code], current)
             IN  [e |-> [r.e EXCEPT !.prev_bucket_map = DictSet(@, code, current),
                                    !.current_bucket_map = DictSet(@, code, incoming)],
                  ret |-> r.ret]

\* a flush iteration that does not roll the bucket into the previous slot
FlushOne_NoRoll(e, code) ==
    IF Skipped(e, code)
    THEN [e |-> e, ret |-> NoReturn]
    ELSE FinalizeCompletedBucket(e, code, e.active_pool[code], e.current_bucket_map[code])

\* One iteration of flush_pending's loop, for one key of current_bucket_map.
FlushOne(e, code) ==
    IF Skipped(e, code)
    THEN [e |-> e, ret |-> NoReturn]
    ELSE LET current == e.current_bucket_map[code]
             r == FinalizeCompletedBucket(e, code, e.active_pool[code], current)
         IN  [e |-> [r.e EXCEPT !.prev_bucket_map = DictSet(@, code, current)],
              ret |-> r.ret]

MergeReturn(a, b) ==
    [events |-> a.events \cup b.events,
     pairs |-> a.pairs \cup b.pairs,
     finalized |-> a.finalized \cup b.finalized]

RECURSIVE FlushLoop(_, _, _)
FlushLoop(e, codes, ret) ==
    IF codes = {}
    THEN [e |-> e, ret |-> ret]
    ELSE LET code == CHOOSE c \in codes : TRUE
             r == FlushOne(e, code)
         IN  FlushLoop(r.e, codes \ {code}, MergeReturn(ret, r.ret))

\* a flush that leaves the in-progress buckets in place
FlushPending_NoClear(e) == FlushLoop(e, DOMAIN e.current_bucket_map, NoReturn)

\* The returned list is kept as the set of its events: every event carries its
\* code and the loop appends at most one per key.
FlushPending(e) ==
    LET r == FlushLoop(e, DOMAIN e.current_bucket_map, NoReturn)
    IN  [e |-> [r.e EXCEPT !.current_bucket_map = EmptyDict], ret |-> r.ret]

\* summary(): the runtime counters
Summary(e) ==
    [active |-> Cardinality(DOMAIN e.active_pool),
     processed |-> Cardinality(e.processed_set),
     removed |-> Cardinality(e.removed_pool),
     current_minutes |-> Cardinality(DOMAIN e.current_bucket_map),
     previous_minutes |-> Cardinality(DOMAIN e.prev_bucket_map),
     triggered_buy_flow |->
         Cardinality({c \in DOMAIN e.fired_rules_map : RULE_BUY_FLOW \in e.fired_rules_map[c]}),
     triggered_sell1_drop |->
         Cardinality({c \in DOMAIN e.fired_rules_map : RULE_SELL1_DROP \in e.fired_rules_map[c]}),
     fully_silenced |-> Cardinality(e.processed_set)]

\* ------------------------------------------------- the backtest runner
\* A minute bar is a dict: a missing key is a field the provider left out.
\* An optional value (x | None) is the set {x} or {}.
TsLeq(a, b) == ~TsLess(b, a)

BacktestRequest(code, ask_drop_threshold, confirm_minutes, signal_combination, window_start, window_end) ==
    [code |-> code, ask_drop_threshold |-> ask_drop_threshold,
     confirm_minutes |-> confirm_minutes, signal_combination |-> signal_combination,
     min_abs_delta_ask |-> 0,
     window_start |-> window_start, window_end |-> window_end]

\* the threshold a StrategyEngine has when none is given
DefaultThreshold == [num |-> AskDropThresholdNum, den |-> AskDropThresholdDen]

\* _sort_key: str(ts) orders datetimes chronologically; a bar without ts
\* sorts first (the empty string)
SortKey(bar) ==
    IF "ts" \in DOMAIN bar THEN 1 + bar.ts.minute * (MaxSecond + 1) + bar.ts.second ELSE 0

\* sorted(raw_bars, key=_sort_key): a stable insertion sort
RECURSIVE InsertBar(_, _)
InsertBar(sorted, bar) ==
    IF sorted = <<>> THEN <<bar>>
    ELSE IF SortKey(sorted[Len(sorted)]) <= SortKey(bar) THEN Append(sorted, bar)
    ELSE Append(InsertBar(SubSeq(sorted, 1, Len(sorted) - 1), bar), sorted[Len(sorted)])

\* the bars replayed in the order the provider returned them
SortBars_AsGiven(raw_bars) == raw_bars

RECURSIVE SortBars(_)
SortBars(raw_bars) ==
    IF raw_bars = <<>> THEN <<>>
    ELSE InsertBar(SortBars(SubSeq(raw_bars, 1, Len(raw_bars) - 1)), raw_bars[Len(raw_bars)])

\* _coerce_ts and _parse_ts raise ValueError exactly when ts is missing
TsRaises(bar) == "ts" \notin DOMAIN bar

\* a window filter that leaves out the bar at window_end
InWindow_EndExcluded(request, bar) ==
    TsLeq(request.window_start, bar.ts) /\ TsLess(bar.ts, request.window_end)

InWindow(request, bar) ==
    TsLeq(request.window_start, bar.ts) /\ TsLeq(bar.ts, request.window_end)

\* minute_bar_to_snapshot raises ValueError for a missing required field
MapperRaises(bar) ==
    \/ "limit_down_price" \notin DOMAIN bar
    \/ "ask_v1" \notin DOMAIN bar
    \/ "volume" \notin DOMAIN bar
    \/ "ts" \notin DOMAIN bar

\* close and high default to 0 when the bar has no such key
MinuteBarToSnapshot(bar, code) ==
    [code |-> code, name |-> code,
     current_price |-> DictGet(bar, "close", 0),
     high_price |-> DictGet(bar, "high", 0),
     limit_down_price |-> bar.limit_down_price,
     ask_v1 |-> bar.ask_v1,
     volume |-> bar.volume,
     data_quality |-> DictGet(bar, "data_quality", "minute_proxy"),
     ts |-> bar.ts]

QualityToConfidence(data_quality) == IF data_quality = "tick_a1v" THEN "high" ELSE "low"

\* a BacktestResult with triggered=false and every window field None
EmptyResult(reason, samples, samples_in_window) ==
    [raised |-> "none", triggered |-> FALSE, trigger_time |-> {}, reason |-> reason,
     prev_window_ts |-> {}, curr_window_ts |-> {}, prev_ask_v1 |-> {}, curr_ask_v1 |-> {},
     ask_change_ratio |-> {}, prev_volume |-> {}, curr_volume |-> {},
     volume_change_ratio |-> {}, signal_ask_drop |-> FALSE, signal_volume_spike |-> FALSE,
     data_quality |-> "minute_proxy", confidence |-> "low",
     samples |-> samples, samples_in_window |-> samples_in_window]

\* the call ended in an exception that run_single_day_backtest does not catch
Raised(error) == [raised |-> error]

\* The not-triggered result built from strategy.prev_window_map.get(code):
\* without a previous bucket every window field is None; with one, the
\* expression last_point.ts reads an attribute _MinuteBucket does not have.
LastPointResult(strategy, request, reason, samples, samples_in_window) ==
    IF request.code \notin DOMAIN strategy.prev_bucket_map
    THEN EmptyResult(reason, samples, samples_in_window)
    ELSE Raised("AttributeError")

TriggeredResult(snapshot, event, samples, samples_in_window) ==
    [raised |-> "none", triggered |-> TRUE, trigger_time |-> {snapshot.ts},
     reason |-> event.reason,
     prev_window_ts |-> {event.prev_window_ts}, curr_window_ts |-> {event.curr_window_ts},
     prev_ask_v1 |-> {event.initial_ask_v1}, curr_ask_v1 |-> {event.current_ask_v1},
     ask_change_ratio |-> {event.drop_ratio},
     prev_volume |-> {event.initial_volume}, curr_volume |-> {event.current_volume},
     volume_change_ratio |-> {event.volume_change_ratio},
     signal_ask_drop |-> event.signal_ask_drop,
     signal_volume_spike |-> event.signal_volume_spike,
     data_quality |-> event.data_quality, confidence |-> event.confidence,
     samples |-> samples, samples_in_window |-> samples_in_window]

\* the replay loop over windowed_bars from index i on
RECURSIVE ReplayLoop(_, _, _, _, _, _)
ReplayLoop(strategy, request, windowed_bars, i, has_one_word_snapshot, samples) ==
    IF i > Len(windowed_bars)
    THEN LastPointResult(strategy, request,
                         IF ~has_one_word_snapshot THEN "no_one_word_limit_down"
                         ELSE "threshold_not_met",
                         samples, Len(windowed_bars))
    ELSE IF MapperRaises(windowed_bars[i])
    THEN LastPointResult(strategy, request, "insufficient_data", samples, Len(windowed_bars))
    ELSE LET snapshot == MinuteBarToSnapshot(windowed_bars[i], request.code)
             r == Evaluate(strategy, snapshot)
         IN  IF r.ret.events = {}
             THEN ReplayLoop(r.e, request, windowed_bars, i + 1,
                             has_one_word_snapshot \/ is_one_word_limit_down(snapshot), samples)
             ELSE TriggeredResult(snapshot, CHOOSE ev \in r.ret.events : TRUE,
                                  samples, Len(windowed_bars))

\* StrategyEngine(...) of the request, then register_pool of its one symbol.
\* signal_combination and the volume fields are stored by the engine and read
\* by none of its rules.
RequestStrategy(request) ==
    RegisterPool([NewEngine(request.confirm_minutes, request.min_abs_delta_ask)
                     EXCEPT !.ask_drop_threshold = request.ask_drop_threshold],
                 {request.code})

\* the bars of raw_bars that the replay loop iterates over, in its order
WindowedBars(request, raw_bars) ==
    LET InWin(bar) == InWindow(request, bar)
    IN  SelectSeq(SortBars(raw_bars), InWin)

\* the snapshots the replay loop hands to strategy.evaluate, in call order,
\* the engine it leaves and the event that ended it, if one did
RECURSIVE ReplayCalls(_, _, _, _, _)
ReplayCalls(strategy, request, windowed_bars, i, calls) ==
    IF i > Len(windowed_bars) \/ MapperRaises(windowed_bars[i])
    THEN [e |-> strategy, calls |-> calls, events |-> {}]
    ELSE LET snapshot == MinuteBarToSnapshot(windowed_bars[i], request.code)
             r == Evaluate(strategy, snapshot)
         IN  IF r.ret.events = {}
             THEN ReplayCalls(r.e, request, windowed_bars, i + 1, Append(calls, snapshot))
             ELSE [e |-> r.e, calls |-> Append(calls, snapshot), events |-> r.ret.events]

EvaluatedSnapshots(request, raw_bars) ==
    IF raw_bars = <<>> \/ \E k \in 1 .. Len(raw_bars) : TsRaises(raw_bars[k])
    THEN [e |-> RequestStrategy(request), calls |-> <<>>, events |-> {}]
    ELSE ReplayCalls(RequestStrategy(request), request, WindowedBars(request, raw_bars),
                     1, <<>>)

RunSingleDayBacktest(request, raw_bars) ==
    LET ordered_bars == SortBars(raw_bars)
        InWin(bar) == InWindow(request, bar)
        windowed_bars == SelectSeq(ordered_bars, InWin)
        strategy == RequestStrategy(request)
    IN  IF raw_bars = <<>> THEN EmptyResult("no_data", 0, 0)
        ELSE IF \E k \in 1 .. Len(raw_bars) : TsRaises(raw_bars[k])
        THEN EmptyResult("insufficient_data", Len(raw_bars), 0)
        ELSE IF windowed_bars = <<>>
        THEN EmptyResult("no_data_in_window", Len(raw_bars), 0)
        ELSE ReplayLoop(strategy, request, windowed_bars, 1, FALSE, Len(raw_bars))

\* ------------------------------------------------- the live session loop
\* run_live's engine calls for one symbol: evaluate per fetched snapshot, each
\* returned event handed on, then flush_pending once.  The result is the
\* sequence of events in the order they are handed to the notifier.
RECURSIVE SetToSeq(_)
SetToSeq(S) ==
    IF S = {} THEN <<>>
    ELSE LET x == CHOOSE y \in S : TRUE IN <<x>> \o SetToSeq(S \ {x})

RECURSIVE LiveLoop(_, _, _, _)
LiveLoop(e, snapshots, i, sent) ==
    IF i > Len(snapshots)
    THEN sent \o SetToSeq(FlushPending(e).ret.events)
    ELSE LET r == Evaluate(e, snapshots[i])
         IN  LiveLoop(r.e, snapshots, i + 1, sent \o SetToSeq(r.ret.events))

LiveSessionEvents(confirm_minutes, min_abs_delta_ask, code, snapshots) ==
    LiveLoop(RegisterPool(NewEngine(confirm_minutes, min_abs_delta_ask), {code}),
             snapshots, 1, <<>>)

\* ------------------------------------------------------ the engine in use
VARIABLES
    inputs,     \* the profile of input domains this run draws from
    engine,     \* the StrategyEngine object
    now,        \* the session clock that stamps snapshots
    lastCall,   \* the last call made on the engine: its name, and
                \*   evaluate: the code and prices of its snapshot, and whether
                \*     it discarded a pair on which a rule was due
                \*   flush_pending: the number of events the flush_pending call
                \*     just before it returned, if there was one
                \*   register_pool: the codes it brought back from the removed
                \*     or silenced symbols
    lastRet,    \* the events that call returned
    emitted,    \* per code and rule: events since register_pool that report the rule
    eventCount, \* per code: events emitted since register_pool
    streak,     \* per code: evaluated pairs that qualified in a row, up to now
    finalizedCount, \* per code: buckets finalized since its runtime state was last empty
    registered, \* the codes handed to the last register_pool call
    request,    \* the BacktestRequest of the replay
    raw_bars,   \* the rows the minute-bar provider returns for it
    done,       \* which of the two runs over raw_bars have been made
    result,     \* what run_single_day_backtest returned
    live_events, \* the events the live loop handed on for the same snapshots
    pair_in,    \* one call of the rule evaluator: the engine, code and bucket pair
    pair_out,   \* what that call left and returned, once it has been made
    stream,     \* a sequence of calls to make on a fresh engine
    trace,      \* what making them returned, call by call, once they are made
    wall,       \* the wall clock: the calendar date and the part of the day
    live,       \* the frame of run_live: its position and its locals
    runtime_status, \* the RuntimeStatus singleton
    sink,       \* the events handed to the notifier, in order, with the outcome
    sched,      \* the frame of run_live_scheduler: its position and its locals
    fetcher     \* one fetch_snapshots call: the codes asked for and what came back

engineVars == <<inputs, engine, now, lastCall, lastRet, emitted, eventCount, streak,
                finalizedCount, registered>>
replayVars == <<request, raw_bars, done, result, live_events>>
pairVars == <<pair_in, pair_out>>
streamVars == <<stream, trace>>
liveVars == <<wall, live, runtime_status, sink, sched, fetcher>>
vars == <<engineVars, replayVars, pairVars, streamVars, liveVars>>

\* the rules an event reports as fired
RulesOf(event) ==
    IF event.reason = RULE_COMBINED THEN ALL_RULES ELSE {event.reason} \cap ALL_RULES

\* "the pair qualifies for sell-one-drop", read from the rule's statement
PairQualifies(e, pair) ==
    LET delta == pair.previous.last_ask_v1 - pair.current.last_ask_v1
        base == Max(pair.previous.last_ask_v1, 1)
    IN  /\ delta * e.ask_drop_threshold.den >= e.ask_drop_threshold.num * base
        /\ delta >= e.min_abs_delta_ask

ZeroCounts == [c \in Codes |-> [r \in ALL_RULES |-> 0]]
ZeroPerCode == [c \in Codes |-> 0]

\* the two kinds of snapshot that are not one-word limit-down
BreachPrices(prices) == prices[2] > prices[3]
OneWordPrices(prices) == prices[1] = prices[3] /\ prices[2] = prices[3]

\* The snapshots a caller can hand to evaluate at time ts.  evaluate reads the
\* ask size, volume and quality tag of one-word snapshots only, so the other
\* snapshots are drawn with one value of each.
SnapshotsAt(ts) ==
    {StockSnapshot(code, prices, ask_v1, volume, data_quality, ts) :
        code \in inputs.codes, prices \in {p \in PriceCases : OneWordPrices(p)},
        ask_v1 \in inputs.asks, volume \in inputs.volumes,
        data_quality \in inputs.data_qualities}
    \cup
    {StockSnapshot(code, prices, 0, 1, "tick_a1v", ts) :
        code \in inputs.codes, prices \in {p \in PriceCases : ~OneWordPrices(p)}}

\* the rules that have fired for c since the last register_pool, by the events
\* the engine has returned
FiredSoFar(c) == {r \in ALL_RULES : emitted[c][r] >= 1}

\* "the pair qualifies for buy-flow", read from the rule's statement
BuyFlowQualifies(previous, current) ==
    /\ previous.end_volume_total > 0
    /\ current.end_volume_total - previous.end_volume_total > previous.end_volume_total

\* the calls that finalize c's in-progress bucket against the previous one
BuyDue(c) ==
    /\ RULE_BUY_FLOW \notin FiredSoFar(c)
    /\ BuyFlowQualifies(engine.prev_bucket_map[c], engine.current_bucket_map[c])

SellDue(c) ==
    /\ RULE_SELL1_DROP \notin FiredSoFar(c)
    /\ PairQualifies(engine, [code |-> c, previous |-> engine.prev_bucket_map[c],
                              current |-> engine.current_bucket_map[c]])
    /\ streak[c] + 1 >= engine.confirm_minutes

HasPair(c) ==
    /\ c \in MonitorableCodes(engine)
    /\ c \in DOMAIN engine.current_bucket_map
    /\ c \in DOMAIN engine.prev_bucket_map

\* the snapshot makes evaluate discard a pair of c on which a rule was due
DiscardsDuePair(snapshot) ==
    /\ ~is_one_word_limit_down(snapshot)
    /\ HasPair(snapshot.code)
    /\ BuyDue(snapshot.code) \/ SellDue(snapshot.code)

\* How one call moves the observers.  e is the engine before the call, ret
\* what the call returned, reset the codes that were handed a snapshot that is
\* not one-word.
Observe(e, ret, reset) ==
    /\ lastRet' = ret.events
    /\ registered' = registered
    /\ emitted' = [c \in Codes |-> [r \in ALL_RULES |->
            emitted[c][r] + Cardinality({ev \in ret.events : ev.code = c /\ r \in RulesOf(ev)})]]
    /\ eventCount' = [c \in Codes |->
            eventCount[c] + Cardinality({ev \in ret.events : ev.code = c})]
    /\ streak' = [c \in Codes |->
            IF c \in reset THEN 0
            ELSE IF \E p \in ret.pairs : p.code = c
            THEN IF \A p \in ret.pairs : p.code = c => PairQualifies(e, p)
                 THEN streak[c] + 1 ELSE 0
            ELSE streak[c]]
    /\ finalizedCount' = [c \in Codes |->
            IF c \in reset THEN 0
            ELSE IF \E f \in ret.finalized : f.code = c
            THEN IF finalizedCount[c] < 2 THEN finalizedCount[c] + 1 ELSE 2
            ELSE finalizedCount[c]]

\* nothing has been called yet
FreshObservers ==
    /\ now = [minute |-> 0, second |-> 0]
    /\ lastCall = [op |-> "init"]
    /\ lastRet = {}
    /\ emitted = ZeroCounts
    /\ eventCount = ZeroPerCode
    /\ streak = ZeroPerCode
    /\ finalizedCount = ZeroPerCode
    /\ registered = {}

NoReplay ==
    /\ request = BacktestRequest("600000", DefaultThreshold, 1, "and",
                                 [minute |-> 0, second |-> 0], [minute |-> 0, second |-> 0])
    /\ raw_bars = <<>>
    /\ done = {}
    /\ result = Raised("pending")
    /\ live_events = <<>>

\* the rule evaluator and the call streams are not exercised
NoPair ==
    /\ pair_in = <<>>
    /\ pair_out = <<>>

NoStream ==
    /\ stream = <<>>
    /\ trace = <<>>

\* RuntimeStatus() as the dataclass constructs it; last_error and
\* last_live_date are None (the empty set) or one value
NewRuntimeStatus ==
    [live_running |-> FALSE, last_error |-> {}, last_live_date |-> {},
     in_monitor_window |-> FALSE, monitor_rounds |-> 0, alerts_sent |-> 0]

\* run_live has not been called
IdleLive ==
    [pc |-> "idle", wait_until_start |-> FALSE, preset |-> {}, sessions |-> {},
     started |-> FALSE, rounds |-> 0,
     alerts |-> 0, asked |-> {}, returned |-> <<>>, flushes |-> 0, flushed |-> {},
     evaluated_after_flush |-> FALSE, left_loop |-> "no", error |-> "none"]

\* the scheduler coroutine has not been started
IdleSched ==
    [pc |-> "idle", state_date |-> {}, preopen_done |-> FALSE, is_trade_day |-> FALSE,
     selected_codes |-> {}, today |-> 0, in_window |-> FALSE,
     calendar |-> {}, checked |-> {}, scanned |-> {}]

\* fetch_snapshots has not been called
IdleFetcher == [pc |-> "idle", codes |-> <<>>, tasks |-> <<>>, result |-> <<>>]

\* no live session, scheduler or fetch is running
NoLive ==
    /\ wall = [date |-> 0, part |-> "window"]
    /\ live = IdleLive
    /\ runtime_status = NewRuntimeStatus
    /\ sink = <<>>
    /\ sched = IdleSched
    /\ fetcher = IdleFetcher

Init ==
    /\ inputs \in Profiles
    /\ \E cm \in inputs.confirm_minutes : engine = NewEngine(cm, 0)
    /\ FreshObservers
    /\ NoReplay
    /\ NoPair
    /\ NoStream
    /\ NoLive

RegisterPoolCall ==
    \E stocks \in SUBSET inputs.codes :
        /\ engine' = RegisterPool(engine, stocks)
        /\ lastCall' = [op |-> "register_pool",
                        revived |-> stocks \cap (engine.removed_pool \cup engine.processed_set)]
        /\ registered' = stocks
        /\ lastRet' = {}
        /\ emitted' = ZeroCounts
        /\ eventCount' = ZeroPerCode
        /\ streak' = ZeroPerCode
        /\ finalizedCount' = ZeroPerCode
        /\ UNCHANGED <<inputs, now, replayVars, pairVars, streamVars, liveVars>>

EvaluateCall ==
    \E snapshot \in SnapshotsAt(now) :
        \E r \in {Evaluate(engine, snapshot)} :
            /\ engine' = r.e
            /\ lastCall' = [op |-> "evaluate", code |-> snapshot.code,
                            prices |-> <<snapshot.current_price, snapshot.high_price,
                                         snapshot.limit_down_price>>,
                            lost |-> DiscardsDuePair(snapshot)]
            /\ Observe(engine, r.ret,
                       IF is_one_word_limit_down(snapshot) THEN {} ELSE {snapshot.code})
            /\ UNCHANGED <<inputs, now, replayVars, pairVars, streamVars, liveVars>>

FlushPendingCall ==
    \E r \in {FlushPending(engine)} :
        /\ engine' = r.e
        /\ lastCall' = [op |-> "flush_pending",
                        before |-> IF lastCall.op = "flush_pending"
                                   THEN {Cardinality(lastRet)} ELSE {}]
        /\ Observe(engine, r.ret, {})
        /\ UNCHANGED <<inputs, now, replayVars, pairVars, streamVars, liveVars>>

\* time passes between calls
Tick ==
    /\ \/ /\ now.second + 1 \in inputs.seconds
          /\ now' = [now EXCEPT !.second = @ + 1]
       \/ /\ now.minute < inputs.last_minute
          /\ now' = [minute |-> now.minute + 1, second |-> 0]
    /\ UNCHANGED <<inputs, engine, lastCall, lastRet, emitted, eventCount, streak,
                   finalizedCount, registered, replayVars, pairVars, streamVars, liveVars>>

Next == RegisterPoolCall \/ EvaluateCall \/ FlushPendingCall \/ Tick

Spec == Init /\ [][Next]_vars

\* ------------------------------------------- replay against the live loop
\* One day's bars of one symbol, one bar per minute in time order, every
\* field present, all inside the request's window.
ReplayProfile ==
    [name |-> "replay", codes |-> {"600000"}, seconds |-> {0},
     data_qualities |-> {"minute_proxy"}, asks |-> {0, 1, 2}, volumes |-> {1, 3},
     confirm_minutes |-> {1, 2}, last_minute |-> MaxBars]

MinuteBar(minute, prices, ask_v1, volume) ==
    [ts |-> [minute |-> minute, second |-> 0],
     close |-> prices[1], high |-> prices[2], limit_down_price |-> prices[3],
     ask_v1 |-> ask_v1, volume |-> volume]

BarsAt(minute) ==
    {MinuteBar(minute, prices, ask_v1, volume) :
        prices \in PriceCases, ask_v1 \in ReplayProfile.asks, volume \in ReplayProfile.volumes}

\* the days of n bars, one bar for each of the minutes 0 .. n - 1, in order
OrderedDays(n) ==
    {bars \in [1 .. n -> UNION {BarsAt(m) : m \in 0 .. n - 1}] :
        \A k \in 1 .. n : bars[k].ts.minute = k - 1}

InitReplay ==
    /\ inputs = ReplayProfile
    /\ engine = NewEngine(1, 0)
    /\ FreshObservers
    /\ \E cm \in ReplayProfile.confirm_minutes :
           request = BacktestRequest("600000", DefaultThreshold, cm, "and",
                                     [minute |-> 0, second |-> 0],
                                     [minute |-> MaxBars, second |-> 0])
    /\ \E n \in 0 .. MaxBars : raw_bars \in OrderedDays(n)
    /\ done = {}
    /\ result = Raised("pending")
    /\ live_events = <<>>
    /\ NoPair
    /\ NoStream
    /\ NoLive

RunReplay ==
    /\ "replay" \notin done
    /\ done' = done \cup {"replay"}
    /\ result' = RunSingleDayBacktest(request, raw_bars)
    /\ UNCHANGED <<engineVars, request, raw_bars, live_events, pairVars, streamVars, liveVars>>

\* the live loop is handed the snapshots of the same bars
RunLiveSession ==
    /\ "live" \notin done
    /\ \A k \in 1 .. Len(raw_bars) : ~MapperRaises(raw_bars[k])
    /\ done' = done \cup {"live"}
    /\ live_events' = LiveSessionEvents(request.confirm_minutes, request.min_abs_delta_ask,
                                        request.code,
                                        [k \in 1 .. Len(raw_bars) |->
                                            MinuteBarToSnapshot(raw_bars[k], request.code)])
    /\ UNCHANGED <<engineVars, request, raw_bars, result, pairVars, streamVars, liveVars>>

NextReplay == RunReplay \/ RunLiveSession

SpecReplay == InitReplay /\ [][NextReplay]_vars

\* ------------------------------------------- the rule evaluator on its own
\* _emit_alert_if_hit applied once to a bucket pair, for every setting of the
\* engine it reads: the threshold and floor of the constructor, the confirm
\* setting, the rules already fired and the counter left by earlier pairs.
Thresholds == {[num |-> 0, den |-> 1], [num |-> 1, den |-> 2]}

PairBuckets(minute) ==
    {[minute_key |-> [minute |-> minute, second |-> 0],
      end_ts |-> [minute |-> minute, second |-> 0],
      end_volume_total |-> volume, last_ask_v1 |-> ask_v1,
      data_quality |-> "tick_a1v"] : volume \in 0 .. MaxVolume, ask_v1 \in 0 .. MaxAsk}

\* the engine as it stands when a pair of code comes up for evaluation: the
\* symbol is registered and not silenced, so at most one rule has fired
PairEngines(code) ==
    {[RegisterPool(NewEngine(confirm_minutes, min_abs_delta_ask), {code}) EXCEPT
          !.ask_drop_threshold = threshold,
          !.fired_rules_map = IF fired = {} /\ ~marked THEN EmptyDict
                              ELSE DictSet(EmptyDict, code, fired),
          !.sell1_confirm_count_map = DictSet(EmptyDict, code, count)] :
        confirm_minutes \in {1, 2}, min_abs_delta_ask \in {0, 2},
        threshold \in Thresholds, fired \in {{}, {RULE_BUY_FLOW}, {RULE_SELL1_DROP}},
        marked \in BOOLEAN, count \in {0, 1}}

InitPair ==
    /\ inputs = ReplayProfile
    /\ engine = NewEngine(1, 0)
    /\ FreshObservers
    /\ NoReplay
    /\ NoStream
    /\ NoLive
    /\ \E e \in PairEngines("600000") :
       \E previous \in PairBuckets(0) :
       \E current \in PairBuckets(1) :
           pair_in = [e |-> e, code |-> "600000", previous |-> previous,
                      current |-> current]
    /\ pair_out = <<>>

EmitAlertCall ==
    /\ pair_in # <<>>
    /\ pair_out = <<>>
    /\ pair_out' = <<EmitAlertIfHit(pair_in.e, pair_in.code,
                                    pair_in.e.active_pool[pair_in.code],
                                    pair_in.previous, pair_in.current)>>
    /\ UNCHANGED <<engineVars, replayVars, pair_in, streamVars, liveVars>>

NextPair == EmitAlertCall

SpecPair == InitPair /\ [][NextPair]_vars

\* ------------------------------------------------- a session, call by call
\* One engine with its pool registered, then evaluate and flush_pending in any
\* order, the snapshots of each symbol in non-decreasing time order.  stream
\* is the calls made so far and trace what each of them did.  The observers of
\* Spec stay at rest.
\*   minutes: one symbol, several snapshots per minute, gate breaks
\*   symbols: two symbols interleaved, removals
Quotes ==
    {[ask_v1 |-> 2, volume |-> 1, data_quality |-> "tick_a1v"],
     [ask_v1 |-> 0, volume |-> 3, data_quality |-> "minute_proxy"]}

StreamProfiles ==
    {[name |-> "minutes", codes |-> {"600000"}, steps |-> {"same", "second", "minute"},
      prices |-> {<<10, 10, 10>>, <<9, 10, 10>>}],
     [name |-> "symbols", codes |-> Codes, steps |-> {"same", "minute"},
      prices |-> {<<10, 10, 10>>, <<10, 11, 10>>}]}

\* the time of the last snapshot of code in calls, the session's start if none
LastTs(calls, code) ==
    LET seen == {k \in 1 .. Len(calls) :
                    calls[k].op = "evaluate" /\ calls[k].snapshot.code = code}
    IN  IF seen = {} THEN [minute |-> 0, second |-> 0]
        ELSE calls[CHOOSE k \in seen : \A j \in seen : j <= k].snapshot.ts

\* the times the next snapshot of a symbol last seen at ts can carry
NextTs(ts, step) ==
    IF step = "same" THEN {ts}
    ELSE IF step = "second"
    THEN IF ts.second < MaxSecond
         THEN {[minute |-> ts.minute, second |-> ts.second + 1]} ELSE {}
    ELSE IF ts.minute < MaxMinute
         THEN {[minute |-> ts.minute + 1, second |-> 0]} ELSE {}

\* The snapshots of code that can come next.  evaluate reads neither the quote
\* nor the time of a snapshot that is not one-word, so those are drawn with
\* one of each.
StreamSnapshots(code) ==
    LET last == LastTs(stream, code)
    IN  {StockSnapshot(code, prices, quote.ask_v1, quote.volume, quote.data_quality, ts) :
            prices \in {p \in inputs.prices : OneWordPrices(p)}, quote \in Quotes,
            ts \in UNION {NextTs(last, step) : step \in inputs.steps}}
        \cup
        {StockSnapshot(code, prices, 0, 1, "tick_a1v", last) :
            prices \in {p \in inputs.prices : ~OneWordPrices(p)}}

Applied(e, call) ==
    IF call.op = "evaluate" THEN Evaluate(e, call.snapshot) ELSE FlushPending(e)

\* Which call built each bucket the engine holds.  A bucket object is built by
\* one evaluate call (line 219) and is told apart from an equal one by the
\* number of that call: cur is the builder of each in-progress bucket, prev of
\* each previous bucket.  An evaluate that is not skipped either drops the
\* symbol's in-progress bucket or puts the one it built in its place; a
\* finalized bucket becomes the previous one.
NoBuckets == [cur |-> EmptyDict, prev |-> EmptyDict]

BornAfter(e, born, call, k, r) ==
    [cur |-> [c \in DOMAIN r.e.current_bucket_map |->
                 IF call.op = "evaluate" /\ c = call.snapshot.code /\ ~Skipped(e, c)
                 THEN k ELSE born.cur[c]],
     prev |-> [c \in DOMAIN r.e.prev_bucket_map |->
                 IF \E f \in r.ret.finalized : f.code = c
                 THEN born.cur[c] ELSE born.prev[c]]]

\* what call number k did to engine e, r being what the call gave: the engine
\* and the returned values after it, the buckets it finalized and the pairs it
\* handed to the rule evaluator, by their builders
Entry(e, born, call, k, r) ==
    [e |-> r.e,
     ret |-> r.ret,
     born |-> BornAfter(e, born, call, k, r),
     finalized |-> {[code |-> f.code, built |-> born.cur[f.code]] : f \in r.ret.finalized},
     pairs |-> {[code |-> p.code, previous |-> born.prev[p.code],
                 current |-> born.cur[p.code]] : p \in r.ret.pairs}]

BornNow == IF trace = <<>> THEN NoBuckets ELSE trace[Len(trace)].born

\* the engine a session starts on
StreamStart == RegisterPool(NewEngine(1, 0), inputs.codes)

InitStream ==
    /\ inputs \in StreamProfiles
    /\ engine = StreamStart
    /\ FreshObservers
    /\ NoReplay
    /\ NoPair
    /\ NoStream
    /\ NoLive

Call(call) ==
    /\ Len(stream) < MaxOps
    /\ stream' = Append(stream, call)
    /\ \E r \in {Applied(engine, call)} :
           /\ engine' = r.e
           /\ trace' = Append(trace, Entry(engine, BornNow, call, Len(stream) + 1, r))
    /\ UNCHANGED <<inputs, now, lastCall, lastRet, emitted, eventCount, streak,
                   finalizedCount, registered, replayVars, pairVars, liveVars>>

StreamEvaluate ==
    \E code \in inputs.codes :
        \E snapshot \in StreamSnapshots(code) :
            Call([op |-> "evaluate", snapshot |-> snapshot])

StreamFlush ==
    /\ Len(trace) = Len(stream)
    /\ Call([op |-> "flush_pending"])

NextStream == StreamEvaluate \/ StreamFlush

SpecStream == InitStream /\ [][NextStream]_vars

\* ------------------------------------------------ one call on any content
\* evaluate or flush_pending applied once, for every content a snapshot can
\* carry: ask sizes and volumes below zero, at zero and above, prices at zero,
\* a code that is not registered, an engine that never saw register_pool.  The
\* engine is one that up to two earlier snapshots of such content have left.
WideSnapshots(code, minute) ==
    {StockSnapshot(code, prices, ask_v1, volume, "tick_a1v", [minute |-> minute, second |-> 0]) :
        prices \in {<<10, 10, 10>>, <<0, 0, 0>>}, ask_v1 \in {-1, 0, 2}, volume \in {-1, 0, 3}}
    \cup
    {StockSnapshot(code, prices, 0, 0, "tick_a1v", [minute |-> minute, second |-> 0]) :
        prices \in {<<10, 11, 10>>, <<9, 10, 10>>, <<0, 1, 0>>}}

\* the engines of n earlier snapshots of code
RECURSIVE EnginesAfter(_, _)
EnginesAfter(code, n) ==
    IF n = 0
    THEN {[start EXCEPT !.ask_drop_threshold = threshold] :
            start \in {NewEngine(1, 0), RegisterPool(NewEngine(1, 0), {code})},
            threshold \in Thresholds}
    ELSE EnginesAfter(code, n - 1)
         \cup {Evaluate(e, snapshot).e :
                  e \in EnginesAfter(code, n - 1), snapshot \in WideSnapshots(code, n - 1)}

InitTotal ==
    /\ inputs = ReplayProfile
    /\ engine = NewEngine(1, 0)
    /\ FreshObservers
    /\ NoReplay
    /\ NoStream
    /\ NoLive
    /\ \E e \in EnginesAfter("600000", 2) :
       \E call \in {[op |-> "evaluate", snapshot |-> snapshot] :
                       snapshot \in WideSnapshots("600000", 2) \cup WideSnapshots("000001", 2)}
                   \cup {[op |-> "flush_pending"]} :
           pair_in = [e |-> e, call |-> call]
    /\ pair_out = <<>>

EvaluateOnce ==
    /\ pair_out = <<>>
    /\ pair_in.call.op = "evaluate"
    /\ pair_out' = <<Evaluate(pair_in.e, pair_in.call.snapshot)>>
    /\ UNCHANGED <<engineVars, replayVars, pair_in, streamVars, liveVars>>

FlushOnce ==
    /\ pair_out = <<>>
    /\ pair_in.call.op = "flush_pending"
    /\ pair_out' = <<FlushPending(pair_in.e)>>
    /\ UNCHANGED <<engineVars, replayVars, pair_in, streamVars, liveVars>>

NextTotal == EvaluateOnce \/ FlushOnce

SpecTotal == InitTotal /\ [][NextTotal]_vars

\* ------------------------------------------------ one replay of one day
\* run_single_day_backtest applied once to a day of minute bars.  A day has at
\* most one bar for each of the minutes 0 .. MaxBars; a bar is one-word with
\* one of three quotes, not one-word, or lacks its volume; a day may hold one
\* more bar that lacks its ts.  The provider returns the bars in ascending or
\* descending order.  The request varies the window, confirm_minutes and
\* signal_combination.  Two days of the documented scenarios are added with
\* the clock times as minutes of the day.
Ts(minute) == [minute |-> minute, second |-> 0]

RunBarsAt(minute) ==
    {MinuteBar(minute, <<10, 10, 10>>, 2, 1),
     MinuteBar(minute, <<10, 10, 10>>, 0, 1),
     MinuteBar(minute, <<10, 10, 10>>, 0, 3),
     MinuteBar(minute, <<10, 11, 10>>, 2, 1),
     DictPop(MinuteBar(minute, <<10, 10, 10>>, 2, 1), "volume")}

RECURSIVE RunDays(_)
RunDays(last) ==
    IF last < 0 THEN {<<>>}
    ELSE RunDays(last - 1)
         \cup {Append(day, bar) : day \in RunDays(last - 1), bar \in RunBarsAt(last)}

Reverse(seq) == [k \in 1 .. Len(seq) |-> seq[Len(seq) + 1 - k]]

RunRequests ==
    {BacktestRequest("600000", DefaultThreshold, cm, "and", Ts(w[1]), Ts(w[2])) :
        cm \in {1, 2}, w \in {<<0, MaxBars>>, <<1, MaxBars>>, <<1, MaxBars - 1>>}}
    \cup {BacktestRequest("600000", DefaultThreshold, 1, "or", Ts(0), Ts(MaxBars))}

\* 09:31, 09:32, 13:01, 13:02 with the window 13:00 - 15:00
BuyFlowScenario ==
    [request |-> BacktestRequest("600000", DefaultThreshold, 1, "and", Ts(780), Ts(900)),
     raw_bars |-> <<MinuteBar(571, <<10, 10, 10>>, 1000, 100),
                    MinuteBar(572, <<10, 10, 10>>, 1000, 200),
                    MinuteBar(781, <<10, 10, 10>>, 1000, 50),
                    MinuteBar(782, <<10, 10, 10>>, 1000, 400)>>]

\* 14:00, 14:01, 14:02 with ask_drop_threshold=0.3 and confirm_minutes=2
SellOneScenario ==
    [request |-> BacktestRequest("600000", [num |-> 3, den |-> 10], 2, "and",
                                 Ts(780), Ts(900)),
     raw_bars |-> <<MinuteBar(840, <<10, 10, 10>>, 1000, 100),
                    MinuteBar(841, <<10, 10, 10>>, 600, 200),
                    MinuteBar(842, <<10, 10, 10>>, 300, 500)>>]

InitRun ==
    /\ inputs = ReplayProfile
    /\ engine = NewEngine(1, 0)
    /\ FreshObservers
    /\ NoPair
    /\ NoStream
    /\ NoLive
    /\ done = {}
    /\ result = Raised("pending")
    /\ live_events = <<>>
    /\ \/ /\ request \in RunRequests
          /\ \E day \in RunDays(MaxBars) :
             \E lost \in {<<>>, <<DictPop(MinuteBar(0, <<10, 10, 10>>, 2, 1), "ts")>>} :
                 raw_bars \in {day \o lost, Reverse(day \o lost)}
       \/ \E scenario \in {BuyFlowScenario, SellOneScenario} :
              /\ request = scenario.request
              /\ raw_bars = scenario.raw_bars

RunBacktest ==
    /\ done = {}
    /\ done' = {"replay"}
    /\ result' = RunSingleDayBacktest(request, raw_bars)
    /\ UNCHANGED <<engineVars, request, raw_bars, live_events, pairVars, streamVars, liveVars>>

NextRun == RunBacktest

SpecRun == InitRun /\ [][NextRun]_vars

\* ------------------------------------------- one replay, bars in any order
\* run_single_day_backtest applied once to a day whose bars have pairwise
\* distinct timestamps and arrive in any order: every ordering of every day of
\* at most MaxBars bars is an initial state.
Orderings(n) == {f \in [1 .. n -> 1 .. n] : \A i, j \in 1 .. n : f[i] = f[j] => i = j}

Reordered(bars, f) == [k \in 1 .. Len(bars) |-> bars[f[k]]]

\* the days of at most one bar for each of the minutes 0 .. last, ascending
RECURSIVE OrderDays(_)
OrderDays(last) ==
    IF last < 0 THEN {<<>>}
    ELSE OrderDays(last - 1)
         \cup {Append(day, bar) :
                  day \in OrderDays(last - 1),
                  bar \in RunBarsAt(last) \ {MinuteBar(last, <<10, 10, 10>>, 0, 1)}}

OrderRequests ==
    {BacktestRequest("600000", DefaultThreshold, 1, "and", Ts(0), Ts(MaxBars)),
     BacktestRequest("600000", DefaultThreshold, 2, "and", Ts(1), Ts(MaxBars - 1))}

InitOrder ==
    /\ inputs = ReplayProfile
    /\ engine = NewEngine(1, 0)
    /\ FreshObservers
    /\ NoPair
    /\ NoStream
    /\ NoLive
    /\ done = {}
    /\ result = Raised("pending")
    /\ live_events = <<>>
    /\ request \in OrderRequests
    /\ \E day \in OrderDays(MaxBars - 1) :
           raw_bars \in {Reordered(day, f) : f \in Orderings(Len(day))}

RunUnordered ==
    /\ done = {}
    /\ raw_bars # <<>>
    /\ done' = {"replay"}
    /\ result' = RunSingleDayBacktest(request, raw_bars)
    /\ UNCHANGED <<engineVars, request, raw_bars, live_events, pairVars, streamVars, liveVars>>

RunEmpty ==
    /\ done = {}
    /\ raw_bars = <<>>
    /\ done' = {"replay"}
    /\ result' = RunSingleDayBacktest(request, <<>>)
    /\ UNCHANGED <<engineVars, request, raw_bars, live_events, pairVars, streamVars, liveVars>>

NextOrder == RunUnordered \/ RunEmpty

SpecOrder == InitOrder /\ [][NextOrder]_vars

\* ------------------------------------------- the normalizer on a raw bar
\* minute_bar_to_snapshot applied once to a bar as the provider codes it: each
\* of the six fields is absent, one of the placeholders None, "" and "-", or
\* a value.  A raw field is a record [kind, value]; value is 0 for a
\* placeholder and the minute for a timestamp.
Placeholders == {"None", "empty", "dash"}

RawValue(value) == [kind |-> "value", value |-> value]

RawField(value) == {RawValue(value)} \cup {[kind |-> kind, value |-> 0] : kind \in Placeholders}

\* bar.get(field) in (None, "", "-")
IsPlaceholder(bar, field) == field \notin DOMAIN bar \/ bar[field].kind \in Placeholders

\* StockSnapshot.parse_price, parse_ask_v1, parse_volume: a missing marker is 0
ParseNumber(raw) == IF raw.kind \in Placeholders THEN 0 ELSE raw.value

\* lines 36-43, and _parse_ts for a ts that passed line 42: "-" is a string
\* datetime.fromisoformat rejects
NormalizerRaises(bar) ==
    \/ IsPlaceholder(bar, "limit_down_price")
    \/ IsPlaceholder(bar, "ask_v1")
    \/ IsPlaceholder(bar, "volume")
    \/ "ts" \notin DOMAIN bar
    \/ bar.ts.kind \in {"None", "empty"}
    \/ bar.ts.kind = "dash"

\* the outcome of minute_bar_to_snapshot: a ValueError or a StockSnapshot
NormalizeBar(bar, code) ==
    IF NormalizerRaises(bar) THEN Raised("ValueError")
    ELSE [raised |-> "none",
          snapshot |->
              [code |-> code, name |-> code,
               current_price |-> IF "close" \in DOMAIN bar THEN ParseNumber(bar.close) ELSE 0,
               high_price |-> IF "high" \in DOMAIN bar THEN ParseNumber(bar.high) ELSE 0,
               limit_down_price |-> ParseNumber(bar.limit_down_price),
               ask_v1 |-> ParseNumber(bar.ask_v1),
               volume |-> ParseNumber(bar.volume),
               data_quality |-> "minute_proxy",
               ts |-> Ts(bar.ts.value)]]

RequiredFields == {"ts", "close", "high", "limit_down_price", "ask_v1", "volume"}

\* the bars with the given fields present
RawBars(fields) ==
    {bar \in [fields -> UNION {RawField(10), RawField(2), RawField(0)}] :
        \A field \in fields :
            bar[field] \in RawField(CASE field = "ts" -> 0
                                      [] field = "ask_v1" -> 2
                                      [] field = "volume" -> 2
                                      [] OTHER -> 10)}

InitNormalize ==
    /\ inputs = ReplayProfile
    /\ engine = NewEngine(1, 0)
    /\ FreshObservers
    /\ NoReplay
    /\ NoStream
    /\ NoLive
    /\ \E fields \in SUBSET RequiredFields : pair_in \in RawBars(fields)
    /\ pair_out = <<>>

NormalizeOnce ==
    /\ pair_out = <<>>
    /\ pair_out' = <<NormalizeBar(pair_in, "600000")>>
    /\ UNCHANGED <<engineVars, replayVars, pair_in, streamVars, liveVars>>

NextNormalize == NormalizeOnce

SpecNormalize == InitNormalize /\ [][NextNormalize]_vars

\* ------------------------------------------------------- one live session
\* run_live, from the call to its return.  An action is the code between two
\* awaits; the notifier's outcome per delivery, the snapshots a fetch brings
\* back and the wall clock are the environment's choice.
DayParts == <<"early", "preopen", "window", "after">>
MaxRounds == 3

\* now.time() against MONITOR_START_TIME and MONITOR_END_TIME
in_monitor_window(clock) == clock.part = "window"
BeforeStart(clock) == clock.part \in {"early", "preopen"}
AfterEnd(clock) == clock.part = "after"

\* the session is carried through a step as one record
Session(e, frame, status, deliveries) ==
    [engine |-> e, live |-> frame, runtime_status |-> status, sink |-> deliveries]

mark_live_started(status, clock) ==
    [status EXCEPT !.live_running = TRUE, !.last_error = {},
                   !.last_live_date = {clock.date}]
mark_live_finished(status) == [status EXCEPT !.live_running = FALSE]
mark_poll(status) == [status EXCEPT !.monitor_rounds = @ + 1]
mark_alert(status) == [status EXCEPT !.alerts_sent = @ + 1]
mark_error(status, error) == [status EXCEPT !.last_error = {error}]
set_monitor_window(status, in_window) == [status EXCEPT !.in_monitor_window = in_window]

\* _send_event: one send_alert call; the log line after a delivery reads
\* event.trigger_rule
SendEvent(s, event, ok) ==
    LET handed == [s EXCEPT !.sink = Append(@, [event |-> event, ok |-> ok])]
    IN  IF ~ok THEN handed
        ELSE LET counted == [handed EXCEPT !.live.alerts = @ + 1,
                                           !.runtime_status = mark_alert(@)]
             IN  IF "trigger_rule" \in DOMAIN event THEN counted
                 ELSE [counted EXCEPT !.live.error = "AttributeError"]

\* for snapshot in snapshots: evaluate, and send the event if there is one
RECURSIVE EvaluateAll(_, _, _, _)
EvaluateAll(s, snapshots, i, delivery) ==
    IF i > Len(snapshots) \/ s.live.error # "none" THEN s
    ELSE LET r == Evaluate(s.engine, snapshots[i])
             evaluated == [s EXCEPT !.engine = r.e,
                                    !.live.returned = @ \o SetToSeq(r.ret.events),
                                    !.live.evaluated_after_flush = s.live.flushes > 0]
             sent == IF r.ret.events = {} THEN evaluated
                     ELSE SendEvent(evaluated, CHOOSE event \in r.ret.events : TRUE,
                                    delivery[snapshots[i].code])
         IN  EvaluateAll(sent, snapshots, i + 1, delivery)

\* for event in events: send it
RECURSIVE SendAll(_, _, _, _)
SendAll(s, events, i, delivery) ==
    IF i > Len(events) \/ s.live.error # "none" THEN s
    ELSE SendAll(SendEvent(s, events[i], delivery[events[i].code]), events, i + 1, delivery)

\* the except and finally clauses around the loop, and the return
LeaveTry(s) ==
    IF s.live.error = "none"
    THEN [s EXCEPT !.live.pc = "returned",
                   !.runtime_status = mark_live_finished(set_monitor_window(@, FALSE))]
    ELSE [s EXCEPT !.live.pc = "raised",
                   !.runtime_status =
                       mark_live_finished(set_monitor_window(mark_error(@, s.live.error), FALSE))]

\* the list flush_pending returns, first being its first event
FlushedList(events, first) ==
    IF events = {} THEN <<>> ELSE <<first>> \o SetToSeq(events \ {first})

\* the code after the while loop, r being what flush_pending does to the
\* session's engine: one send per event
FlushAndLeave(s, r, why, first, delivery) ==
    LeaveTry(SendAll([s EXCEPT !.engine = r.e, !.live.left_loop = why,
                               !.live.flushes = @ + 1,
                               !.live.flushed = r.ret.events,
                               !.live.returned = @ \o FlushedList(r.ret.events, first)],
                     FlushedList(r.ret.events, first), 1, delivery))

\* what the quote source can answer for one code at ts: a one-word snapshot
\* with one of the profile's ask sizes, or a snapshot whose high is above the
\* limit
LiveSnapshots(code, ts) ==
    {StockSnapshot(code, <<10, 10, 10>>, ask_v1, 1, "tick_a1v", ts) : ask_v1 \in inputs.asks}
    \cup {StockSnapshot(code, <<10, 11, 10>>, 0, 1, "tick_a1v", ts)}

\* the lists fetch_snapshots can return for codes: for each code one
\* snapshot or none, in the order of codes
RECURSIVE FetchResults(_, _)
FetchResults(codes, ts) ==
    IF codes = <<>> THEN {<<>>}
    ELSE LET rest == FetchResults(Tail(codes), ts)
         IN  rest \cup {<<snapshot>> \o tail : snapshot \in LiveSnapshots(Head(codes), ts),
                                               tail \in rest}

LiveProfile ==
    [name |-> "live", codes |-> Codes, seconds |-> {0},
     data_qualities |-> {"tick_a1v"}, asks |-> {0, MaxAsk}, volumes |-> {1},
     confirm_minutes |-> {1}, last_minute |-> MaxRounds - 1]

InitLive ==
    /\ inputs = LiveProfile
    /\ engine = NewEngine(1, 0)
    /\ FreshObservers
    /\ NoReplay
    /\ NoPair
    /\ NoStream
    /\ wall \in {[date |-> 0, part |-> DayParts[k]] : k \in 2 .. 4}
    /\ live \in {[IdleLive EXCEPT !.wait_until_start = w] : w \in BOOLEAN}
    /\ runtime_status = NewRuntimeStatus
    /\ sink = <<>>
    /\ sched = IdleSched
    /\ fetcher = IdleFetcher

Install(s) ==
    /\ engine' = s.engine
    /\ live' = s.live
    /\ runtime_status' = s.runtime_status
    /\ sink' = s.sink

\* run_live up to its first await or return: the pool, the engine, the
\* started mark, and the two early returns
StartLive ==
    /\ live.pc = "idle"
    /\ \E pool \in SUBSET (IF live.preset = {} THEN inputs.codes
                         ELSE inputs.codes \cap UNION live.preset) :
        LET e == RegisterPool(NewEngine(1, 0), pool)
            started == mark_live_started(set_monitor_window(runtime_status,
                                                            in_monitor_window(wall)), wall)
            frame == [live EXCEPT !.started = TRUE, !.sessions = @ \cup {wall.date}]
        IN  IF AfterEnd(wall) \/ (BeforeStart(wall) /\ ~live.wait_until_start)
            THEN Install(Session(e, [frame EXCEPT !.pc = "returned"],
                                 mark_live_finished(started), sink))
            ELSE IF BeforeStart(wall)
            THEN Install(Session(e, [frame EXCEPT !.pc = "waiting"], started, sink))
            ELSE Install(Session(e, [frame EXCEPT !.pc = "loop"], started, sink))
    /\ UNCHANGED <<inputs, now, lastCall, lastRet, emitted, eventCount, streak,
                   finalizedCount, registered, replayVars, pairVars, streamVars,
                   wall, sched, fetcher>>

\* build_daily_pool raises before the session is marked as started
PoolFails ==
    /\ live.pc = "idle"
    /\ live' = [live EXCEPT !.pc = "raised", !.error = "pool"]
    /\ UNCHANGED <<engineVars, replayVars, pairVars, streamVars,
                   wall, runtime_status, sink, sched, fetcher>>

\* the sleep until the window opens returns
WindowOpens ==
    /\ live.pc = "waiting"
    /\ ~BeforeStart(wall)
    /\ live' = [live EXCEPT !.pc = "loop"]
    /\ UNCHANGED <<engineVars, replayVars, pairVars, streamVars,
                   wall, runtime_status, sink, sched, fetcher>>

\* one iteration of the while loop with codes to fetch
PollRound ==
    /\ live.pc = "loop"
    /\ in_monitor_window(wall)
    /\ live.rounds < MaxRounds
    /\ MonitorableCodes(engine) # {}
    /\ \E snapshots \in FetchResults(SetToSeq(MonitorableCodes(engine)), now),
          delivery \in [inputs.codes -> BOOLEAN] :
        LET polled == Session(engine,
                              [live EXCEPT !.rounds = @ + 1,
                                           !.asked = MonitorableCodes(engine)],
                              mark_poll(set_monitor_window(runtime_status, TRUE)), sink)
        IN  \E s \in {EvaluateAll(polled, snapshots, 1, delivery)} :
                Install(IF s.live.error = "none" THEN s ELSE LeaveTry(s))
    /\ now' = [minute |-> now.minute + 1, second |-> 0]
    /\ UNCHANGED <<inputs, lastCall, lastRet, emitted, eventCount, streak,
                   finalizedCount, registered, replayVars, pairVars, streamVars,
                   wall, sched, fetcher>>

\* the iteration that finds no monitorable code: break, flush, return
StopEarly ==
    /\ live.pc = "loop"
    /\ in_monitor_window(wall)
    /\ MonitorableCodes(engine) = {}
    /\ \E delivery \in [inputs.codes -> BOOLEAN], r \in {FlushPending(engine)} :
        \E first \in IF r.ret.events = {} THEN {0} ELSE r.ret.events :
            \E s \in {FlushAndLeave(Session(engine, [live EXCEPT !.rounds = @ + 1],
                                             mark_poll(set_monitor_window(runtime_status, TRUE)),
                                             sink),
                                     r, "empty", first, delivery)} : Install(s)
    /\ UNCHANGED <<inputs, now, lastCall, lastRet, emitted, eventCount, streak,
                   finalizedCount, registered, replayVars, pairVars, streamVars,
                   wall, sched, fetcher>>

\* the while condition finds the window closed: flush, return
WindowClosed ==
    /\ live.pc = "loop"
    /\ ~in_monitor_window(wall)
    /\ \E delivery \in [inputs.codes -> BOOLEAN], r \in {FlushPending(engine)} :
        \E first \in IF r.ret.events = {} THEN {0} ELSE r.ret.events :
            \E s \in {FlushAndLeave(Session(engine, live, runtime_status, sink),
                                     r, "closed", first, delivery)} : Install(s)
    /\ UNCHANGED <<inputs, now, lastCall, lastRet, emitted, eventCount, streak,
                   finalizedCount, registered, replayVars, pairVars, streamVars,
                   wall, sched, fetcher>>

\* the task is cancelled while run_live sleeps before the window (line 95,
\* outside the try) or between two rounds (line 124, inside it)
CancelLive ==
    /\ \/ /\ live.pc = "waiting"
          /\ live' = [live EXCEPT !.pc = "cancelled", !.error = "CancelledError"]
          /\ UNCHANGED runtime_status
       \/ /\ live.pc = "loop"
          /\ live.rounds > 0
          /\ live' = [live EXCEPT !.pc = "cancelled", !.error = "CancelledError"]
          /\ runtime_status' = mark_live_finished(set_monitor_window(runtime_status, FALSE))
    /\ UNCHANGED <<engineVars, replayVars, pairVars, streamVars, wall, sink, sched, fetcher>>

\* the wall clock moves to the next part of the day
ClockAdvances ==
    /\ \E k \in 1 .. 3 : wall.part = DayParts[k] /\ wall' = [wall EXCEPT !.part = DayParts[k + 1]]
    /\ UNCHANGED <<engineVars, replayVars, pairVars, streamVars,
                   live, runtime_status, sink, sched, fetcher>>

NextLive ==
    \/ StartLive \/ PoolFails \/ WindowOpens \/ PollRound \/ StopEarly
    \/ WindowClosed \/ CancelLive \/ ClockAdvances

SpecLive == InitLive /\ [][NextLive]_vars

\* ------------------------------------------------- one fetch_snapshots call
\* fetch_snapshots creates one task per code; each task requests its quote,
\* retrying a failed request, and parses the answer.  The tasks advance one
\* request at a time in any order; what the quote server does on a request is
\* the environment's choice.
RETRY_ATTEMPTS == 3

\* the quote fields _to_snapshot resolves as numbers
QuoteFields == {"f2", "f15", "f51", "f31", "f47"}

\* a numeric field holding text that float() rejects
RawText == [kind |-> "text", value |-> 0]

\* A decoded JSON answer: a dict with a data dict (code present or not, a raw
\* value for some fields), or a JSON value that is not a dict.
Payload(shape, code, fields) == [shape |-> shape, code |-> code, fields |-> fields]

FullQuote(ask_v1) ==
    [f \in QuoteFields |-> IF f = "f31" THEN ask_v1 ELSE IF f = "f47" THEN RawValue(1)
                           ELSE RawValue(10)]

\* the answers the server can give to the request for code
Payloads(code) ==
    {Payload("dict", {code}, FullQuote(ask_v1)) :
         ask_v1 \in {RawValue(MaxAsk), [kind |-> "dash", value |-> 0], RawText}}
    \cup {Payload("dict", {}, EmptyDict), Payload("list", {}, EmptyDict)}

\* _resolve_price and _resolve_int: the value of the field, 0 when it is
\* absent or a missing marker; float() raises on other text
ResolveRaises(data, key) == key \in DOMAIN data /\ data[key].kind = "text"
Resolve(data, key) ==
    IF key \in DOMAIN data /\ data[key].kind \notin Placeholders THEN data[key].value ELSE 0

\* _to_snapshot
ToSnapshotRaises(payload) ==
    \/ payload.shape # "dict"
    \/ \E key \in QuoteFields : ResolveRaises(payload.fields, key)
ToSnapshot(payload, ts) ==
    StockSnapshot(IF payload.code = {} THEN "" ELSE CHOOSE code \in payload.code : TRUE,
                  <<Resolve(payload.fields, "f2"), Resolve(payload.fields, "f15"),
                    Resolve(payload.fields, "f51")>>,
                  Resolve(payload.fields, "f31"), Resolve(payload.fields, "f47"),
                  "tick_a1v", ts)

\* stop_after_attempt(RETRY_ATTEMPTS), asked after a failed attempt
StopAfterAttempt(attempt_number) == attempt_number >= RETRY_ATTEMPTS

\* a task of _fetch_one: the code, the attempts made, how the last one went,
\* and the item it returned once it is done (None is the empty set)
NewTask(code) ==
    [code |-> code, pc |-> "requesting", attempts |-> 0, last |-> "none", item |-> {}]

\* the two "except Exception: return None" clauses of _fetch_one
ReturnNone_Propagates(task) == [task EXCEPT !.pc = "raised"]
ReturnNone(task) == [task EXCEPT !.pc = "done", !.item = {}]

\* _fetch_one after a request that failed: _fetch_raw raises when the retries
\* are used up
AfterFailure(task, how) ==
    LET tried == [task EXCEPT !.attempts = @ + 1, !.last = how]
    IN  IF StopAfterAttempt(tried.attempts) THEN ReturnNone(tried) ELSE tried

\* _fetch_one after a request that was answered: the snapshot, or None when
\* _to_snapshot raises
AfterAnswer(task, payload, ts) ==
    IF ToSnapshotRaises(payload)
    THEN ReturnNone([task EXCEPT !.attempts = @ + 1, !.last = "unparsed"])
    ELSE [task EXCEPT !.attempts = @ + 1, !.pc = "done", !.last = "parsed",
                      !.item = {ToSnapshot(payload, ts)}]

\* the lists of distinct codes a caller passes
RECURSIVE CodeLists(_)
CodeLists(codes) ==
    {<<>>} \cup UNION {{<<code>> \o rest : rest \in CodeLists(codes \ {code})} : code \in codes}

\* [item for item in items if item is not None]
RECURSIVE NotNone(_, _)
NotNone(tasks, i) ==
    IF i > Len(tasks) THEN <<>>
    ELSE SetToSeq(tasks[i].item) \o NotNone(tasks, i + 1)

InitFetch ==
    /\ inputs = LiveProfile
    /\ engine = NewEngine(1, 0)
    /\ FreshObservers
    /\ NoReplay
    /\ NoPair
    /\ NoStream
    /\ wall = [date |-> 0, part |-> "window"]
    /\ live = IdleLive
    /\ runtime_status = NewRuntimeStatus
    /\ sink = <<>>
    /\ sched = IdleSched
    /\ fetcher = IdleFetcher

\* fetch_snapshots up to the gather: the empty list returns at once
FetchSnapshotsCall ==
    /\ fetcher.pc = "idle"
    /\ \E codes \in CodeLists(Codes) :
        fetcher' = IF codes = <<>>
                   THEN [fetcher EXCEPT !.pc = "returned"]
                   ELSE [fetcher EXCEPT !.pc = "gathering", !.codes = codes,
                                        !.tasks = [i \in 1 .. Len(codes) |-> NewTask(codes[i])]]
    /\ UNCHANGED <<engineVars, replayVars, pairVars, streamVars,
                   wall, live, runtime_status, sink, sched>>

\* one attempt of one task fails: the request times out or is refused, or
\* the body is not JSON
RequestFails ==
    /\ fetcher.pc = "gathering"
    /\ \E i \in 1 .. Len(fetcher.tasks), how \in {"refused", "not_json"} :
        /\ fetcher.tasks[i].pc = "requesting"
        /\ fetcher' = [fetcher EXCEPT !.tasks[i] = AfterFailure(@, how)]
    /\ UNCHANGED <<engineVars, replayVars, pairVars, streamVars,
                   wall, live, runtime_status, sink, sched>>

\* one attempt of one task is answered with JSON
RequestAnswered ==
    /\ fetcher.pc = "gathering"
    /\ \E i \in 1 .. Len(fetcher.tasks) :
        /\ fetcher.tasks[i].pc = "requesting"
        /\ \E payload \in Payloads(fetcher.tasks[i].code) :
               fetcher' = [fetcher EXCEPT !.tasks[i] = AfterAnswer(@, payload, now)]
    /\ UNCHANGED <<engineVars, replayVars, pairVars, streamVars,
                   wall, live, runtime_status, sink, sched>>

\* every task is over: gather returns and the None items are dropped; an
\* exception of a task leaves gather and fetch_snapshots
GatherReturns ==
    /\ fetcher.pc = "gathering"
    /\ \A i \in 1 .. Len(fetcher.tasks) : fetcher.tasks[i].pc \in {"done", "raised"}
    /\ fetcher' = IF \E i \in 1 .. Len(fetcher.tasks) : fetcher.tasks[i].pc = "raised"
                  THEN [fetcher EXCEPT !.pc = "raised"]
                  ELSE [fetcher EXCEPT !.pc = "returned", !.result = NotNone(fetcher.tasks, 1)]
    /\ UNCHANGED <<engineVars, replayVars, pairVars, streamVars,
                   wall, live, runtime_status, sink, sched>>

NextFetch == FetchSnapshotsCall \/ RequestFails \/ RequestAnswered \/ GatherReturns

SpecFetch == InitFetch /\ [][NextFetch]_vars

\* ------------------------------------------------------ the daily scheduler
\* run_live_scheduler's loop, one action per stretch between two awaits: an
\* iteration up to its sleep, up to the pre-open scan, or up to the call of
\* run_live; the return of the scan; the return of run_live.  run_live runs
\* as in the live session above.  The trading calendar, the scan's result and
\* the clock are the environment's choice.
MaxDate == 1

SchedProfile == [LiveProfile EXCEPT !.name = "sched", !.codes = {"600000"}, !.asks = {MaxAsk}]

\* now.time() >= preopen_scan_time
AtOrAfterPreopenScan(clock) == clock.part # "early"

\* lines 107-111: the per-day locals follow the date
FollowDate(frame, clock) ==
    LET dated == IF frame.state_date # {clock.date}
                 THEN [frame EXCEPT !.state_date = {clock.date}, !.preopen_done = FALSE,
                                    !.is_trade_day = FALSE, !.selected_codes = {}]
                 ELSE frame
    IN  [dated EXCEPT !.today = clock.date, !.in_window = in_monitor_window(clock)]

\* lines 146-156: whether the iteration goes on to call run_live
Launches_AgainToday(frame, status) ==
    /\ frame.in_window
    /\ frame.preopen_done
    /\ frame.is_trade_day
Launches(frame, status) ==
    /\ frame.in_window
    /\ status.last_live_date # {frame.today}
    /\ frame.preopen_done
    /\ frame.is_trade_day

\* lines 146-188: run_live is called with the selected codes, or the
\* iteration sleeps
WindowPart(frame, status) ==
    /\ runtime_status' = status
    /\ IF Launches(frame, status)
       THEN /\ sched' = [frame EXCEPT !.pc = "in_run_live"]
            /\ live' = [IdleLive EXCEPT !.preset = {frame.selected_codes},
                                        !.sessions = live.sessions]
       ELSE /\ sched' = [frame EXCEPT !.pc = "top"]
            /\ UNCHANGED live

InitSched ==
    /\ inputs = SchedProfile
    /\ engine = NewEngine(1, 0)
    /\ FreshObservers
    /\ NoReplay
    /\ NoPair
    /\ NoStream
    /\ wall \in {[date |-> 0, part |-> DayParts[k]] : k \in 1 .. 4}
    /\ live = [IdleLive EXCEPT !.pc = "uncalled"]
    /\ runtime_status = NewRuntimeStatus
    /\ sink = <<>>
    /\ sched \in {[IdleSched EXCEPT !.pc = "top", !.calendar = days] :
                      days \in SUBSET (0 .. MaxDate)}
    /\ fetcher = IdleFetcher

\* one iteration of the while loop, from reading the clock to its first await
SchedulerRound ==
    /\ sched.pc = "top"
    /\ LET frame == FollowDate(sched, wall)
           status == set_monitor_window(runtime_status, frame.in_window)
       IN  IF ~frame.preopen_done /\ AtOrAfterPreopenScan(wall)
           THEN \E check \in {"answers", "raises"} :
                   LET trading == check = "answers" /\ frame.today \in frame.calendar
                       checked == IF check = "raises"
                                  THEN mark_error(status, "trading day check failed")
                                  ELSE status
                   IN  IF ~trading
                       THEN WindowPart([frame EXCEPT !.is_trade_day = FALSE,
                                                     !.preopen_done = TRUE,
                                                     !.checked = @ \cup {frame.today}],
                                       checked)
                       ELSE /\ sched' = [frame EXCEPT !.is_trade_day = TRUE,
                                                      !.pc = "scanning",
                                                      !.scanned = @ \cup {frame.today}]
                            /\ runtime_status' = checked
                            /\ UNCHANGED live
           ELSE WindowPart(frame, status)
    /\ UNCHANGED <<engineVars, replayVars, pairVars, streamVars, wall, sink, fetcher>>

\* scan_preopen_one_word_limit_down returns or raises; the summary is sent
ScanReturns ==
    /\ sched.pc = "scanning"
    /\ \E selected \in SUBSET inputs.codes, outcome \in {"delivered", "undelivered", "raises"} :
        LET frame == [sched EXCEPT !.preopen_done = TRUE,
                                   !.checked = @ \cup {sched.today},
                                   !.selected_codes = IF outcome = "raises" THEN {}
                                                      ELSE selected]
            status == CASE outcome = "raises" -> mark_error(runtime_status,
                                                            "pre-open scan failed")
                        [] outcome = "delivered" -> mark_alert(runtime_status)
                        [] OTHER -> runtime_status
        IN  WindowPart(frame, status)
    /\ UNCHANGED <<engineVars, replayVars, pairVars, streamVars, wall, sink, fetcher>>

\* the await of run_live is over: an Exception is recorded, the session's
\* engine is dropped with run_live's frame, and the loop sleeps
SessionReturns ==
    /\ sched.pc = "in_run_live"
    /\ live.pc \in {"returned", "raised"}
    /\ runtime_status' = IF live.pc = "raised" THEN mark_error(runtime_status, live.error)
                         ELSE runtime_status
    /\ sched' = [sched EXCEPT !.pc = "top"]
    /\ live' = [IdleLive EXCEPT !.pc = "uncalled", !.sessions = live.sessions]
    /\ engine' = NewEngine(1, 0)
    /\ UNCHANGED <<inputs, now, lastCall, lastRet, emitted, eventCount, streak,
                   finalizedCount, registered, replayVars, pairVars, streamVars,
                   wall, sink, fetcher>>

\* midnight passes while the scheduler sleeps; the minutes of the day start
\* again
DayChanges ==
    /\ sched.pc = "top"
    /\ wall.part = "after"
    /\ wall.date < MaxDate
    /\ wall' = [date |-> wall.date + 1, part |-> "early"]
    /\ now' = [minute |-> 0, second |-> 0]
    /\ UNCHANGED <<inputs, engine, lastCall, lastRet, emitted, eventCount, streak,
                   finalizedCount, registered, replayVars, pairVars, streamVars,
                   live, runtime_status, sink, sched, fetcher>>

NextSched ==
    \/ SchedulerRound \/ ScanReturns \/ SessionReturns \/ DayChanges \/ ClockAdvances
    \/ StartLive \/ PoolFails \/ PollRound \/ StopEarly \/ WindowClosed

SpecSched == InitSched /\ [][NextSched]_vars

\* ------------------------------------------------- properties of the engine
\* The properties below are stated over the reachable states of Spec.  Where a
\* property speaks of "any later call", it is stated in every reachable state
\* over every call that can be made next in that state.

EventsFor(events, c) == {ev \in events : ev.code = c}

\* the snapshots of c that can be evaluated next
SnapshotsOf(c) == {s \in SnapshotsAt(now) : s.code = c}

\* one-word snapshots of c in a minute after the one c's bucket is in
LaterSnapshots(c) ==
    {StockSnapshot(c, prices, ask_v1, volume, data_quality,
                   [minute |-> engine.current_bucket_map[c].minute_key.minute + 1,
                    second |-> 0]) :
        prices \in {p \in PriceCases : OneWordPrices(p)}, ask_v1 \in inputs.asks,
        volume \in inputs.volumes, data_quality \in inputs.data_qualities}

ConfirmCount(e, c) == DictGet(e.sell1_confirm_count_map, c, 0)

\* C1: between two register_pool calls each rule gives rise to at most one
\* event per symbol, so a symbol sees at most two events, whatever evaluate
\* and flush_pending calls are made.
C1_EachRuleAtMostOnce ==
    \A c \in Codes :
        /\ \A r \in ALL_RULES : emitted[c][r] <= 1
        /\ eventCount[c] <= 2

\* a symbol has had its two events, the sell-one-drop one last
C1_TwoEventsSeen ==
    \E ev \in lastRet :
        /\ eventCount[ev.code] = 2
        /\ ev.reason = RULE_SELL1_DROP
        /\ FiredSoFar(ev.code) = ALL_RULES

\* C2: once both rules have fired for a symbol, the symbol is not in
\* monitorable_codes(), no evaluate call for it returns an event whatever the
\* snapshot holds, and flush_pending returns no event for it; this lasts until
\* register_pool (which empties the record of fired rules).
C2_FullySilenced ==
    \A c \in Codes :
        FiredSoFar(c) = ALL_RULES =>
            /\ c \notin MonitorableCodes(engine)
            /\ \A s \in SnapshotsOf(c) : Evaluate(engine, s).ret.events = {}
            /\ EventsFor(FlushPending(engine).ret.events, c) = {}

\* a one-word snapshot has been evaluated for a symbol both of whose rules had
\* fired, and nothing was returned
C2_SilencedSymbolEvaluated ==
    /\ lastCall.op = "evaluate"
    /\ OneWordPrices(lastCall.prices)
    /\ FiredSoFar(lastCall.code) = ALL_RULES
    /\ lastRet = {}

\* C3: a snapshot with high_price > limit_down_price evicts a monitored symbol
\* in the same call and returns no event, whatever bucket or count is pending;
\* a removed symbol is not monitorable, and neither evaluate nor flush_pending
\* returns an event for it or brings it back.
C3_RemovalPrecedence ==
    \A c \in Codes :
        /\ c \in MonitorableCodes(engine) =>
               \A s \in SnapshotsOf(c) :
                   s.high_price > s.limit_down_price =>
                       \E r \in {Evaluate(engine, s)} :
                           /\ r.ret.events = {}
                           /\ c \in r.e.removed_pool
                           /\ c \notin DOMAIN r.e.active_pool
        /\ c \in engine.removed_pool =>
               /\ c \notin MonitorableCodes(engine)
               /\ \A s \in SnapshotsAt(now) :
                      \E r \in {Evaluate(engine, s)} :
                          /\ EventsFor(r.ret.events, c) = {}
                          /\ c \in r.e.removed_pool
                          /\ c \notin MonitorableCodes(r.e)
               /\ \E f \in {FlushPending(engine)} :
                      /\ EventsFor(f.ret.events, c) = {}
                      /\ c \in f.e.removed_pool
                      /\ c \notin MonitorableCodes(f.e)

\* a symbol that had already alerted once has been evicted by a breach
C3_AlertedSymbolEvicted ==
    /\ lastCall.op = "evaluate"
    /\ BreachPrices(lastCall.prices)
    /\ lastCall.code \in engine.removed_pool
    /\ eventCount[lastCall.code] = 1
    /\ lastRet = {}

\* C4, as stated: an event reports sell-one-drop only at the end of an
\* unbroken run of confirm_minutes qualifying pairs, and the counter of every
\* symbol is 0 after a pair that did not qualify or a snapshot that was not
\* one-word.
C4_CounterZeroAfterAnyBreak ==
    /\ \A ev \in lastRet : ev.signal_ask_drop => streak[ev.code] >= engine.confirm_minutes
    /\ \A c \in Codes : streak[c] = 0 => ConfirmCount(engine, c) = 0

\* C4, amended: the same, for the symbols that are not fully silenced: for
\* them the counter is the length of the current run of qualifying pairs, so
\* it is 0 after a miss or a snapshot that is not one-word.  (evaluate returns
\* before the gate for a fully silenced symbol and leaves its counter alone.)
C4_ConfirmRun ==
    /\ \A ev \in lastRet : ev.signal_ask_drop => streak[ev.code] >= engine.confirm_minutes
    /\ \A c \in Codes \ engine.processed_set : ConfirmCount(engine, c) = streak[c]

\* sell-one-drop has fired at the end of a run of two pairs under confirm_minutes = 2
C4_FiredAfterTwoPairs ==
    \E ev \in lastRet :
        /\ ev.signal_ask_drop
        /\ engine.confirm_minutes = 2
        /\ streak[ev.code] = 2

\* what finalizing c's in-progress bucket now must return, by the rules'
\* statements: buy says buy-flow qualifies on the pair and has not fired yet,
\* sell the same for sell-one-drop
PairOutcomeAsStated(c, r, buy, sell) ==
    \E evs \in {EventsFor(r.ret.events, c)} :
        /\ evs # {} <=> (buy \/ sell)
        /\ Cardinality(evs) <= 1
        /\ \A ev \in evs :
               /\ ev.reason = (IF buy /\ sell THEN RULE_COMBINED
                               ELSE IF buy THEN RULE_BUY_FLOW ELSE RULE_SELL1_DROP)
               /\ ev.signal_ask_drop = sell
        /\ (buy /\ sell) => c \in r.e.processed_set /\ c \notin MonitorableCodes(r.e)

\* C5: the two rules are evaluated on the same pair and OR-ed: the finalizing
\* call returns one event exactly when at least one of them qualifies, the
\* reason names the rule that fired or is the combined reason when both fire,
\* and in the combined case the symbol is fully silenced by that same call.
C5_SamePairOr ==
    \A c \in Codes :
        HasPair(c) =>
            /\ PairOutcomeAsStated(c, FlushPending(engine), BuyDue(c), SellDue(c))
            /\ \A s \in LaterSnapshots(c) :
                   PairOutcomeAsStated(c, Evaluate(engine, s), BuyDue(c), SellDue(c))

\* one event with the combined reason has silenced a symbol
C5_CombinedEventSeen ==
    \E ev \in lastRet :
        /\ ev.reason = RULE_COMBINED
        /\ ev.signal_ask_drop
        /\ eventCount[ev.code] = 1
        /\ ev.code \in engine.processed_set

\* C6: while exactly one rule has fired for a symbol and the symbol has not
\* been removed, it stays in monitorable_codes(), its one-word snapshots are
\* still aggregated into its bucket, and every finalized pair is still tested
\* for the other rule, which fires when it qualifies.
C6_PartiallyFiredContinues ==
    \A c \in Codes :
        (Cardinality(FiredSoFar(c)) = 1 /\ c \notin engine.removed_pool) =>
            /\ c \in MonitorableCodes(engine)
            /\ \A s \in SnapshotsOf(c) :
                   is_one_word_limit_down(s) =>
                       \E r \in {Evaluate(engine, s)} :
                           /\ c \in DOMAIN r.e.current_bucket_map
                           /\ r.e.current_bucket_map[c] = BuildBucket(s)
            /\ HasPair(c) =>
                   \E other \in ALL_RULES \ FiredSoFar(c) :
                       \E due \in {IF other = RULE_BUY_FLOW THEN BuyDue(c) ELSE SellDue(c)} :
                           /\ \E f \in {FlushPending(engine)} :
                                  /\ EventsFor(f.ret.events, c) # {} <=> due
                                  /\ \A ev \in EventsFor(f.ret.events, c) : ev.reason = other
                           /\ \A s \in LaterSnapshots(c) :
                                  \E r \in {Evaluate(engine, s)} :
                                      /\ r.ret.events # {} <=> due
                                      /\ \A ev \in r.ret.events : ev.reason = other

\* the second rule has fired for a symbol some time after the first: buy-flow
\* after sell-one-drop
C6_OtherRuleFiredLater ==
    \E ev \in lastRet :
        /\ ev.reason = RULE_BUY_FLOW
        /\ eventCount[ev.code] = 2
        /\ FiredSoFar(ev.code) = ALL_RULES

\* C7: flush_pending is idempotent: a flush_pending call made right after
\* another returns no event, and leaves the engine as it was.
C7_FlushIdempotent ==
    lastCall.op = "flush_pending" =>
        /\ lastCall.before # {} => lastRet = {}
        /\ \E f \in {FlushPending(engine)} :
               /\ f.ret.events = {}
               /\ f.e = engine

\* flush_pending has been called right after a flush_pending that returned an event
C7_SecondFlushSeen ==
    /\ lastCall.op = "flush_pending"
    /\ \E n \in lastCall.before : n >= 1
    /\ lastRet = {}

\* C8: flush_pending clears every in-progress bucket; for a symbol that is
\* monitorable and has an in-progress bucket it does what evaluate would do on
\* a snapshot of a later minute: it returns the same event (at most one) and
\* leaves the same previous bucket, counter and fired rules; for any other
\* symbol it returns nothing and finalizes nothing.
C8_FlushLikeRollover ==
    \E f \in {FlushPending(engine)} :
        /\ f.e.current_bucket_map = EmptyDict
        /\ \A c \in Codes :
               IF c \in MonitorableCodes(engine) /\ c \in DOMAIN engine.current_bucket_map
               THEN /\ Cardinality(EventsFor(f.ret.events, c)) <= 1
                    /\ \E fin \in f.ret.finalized :
                           fin.code = c /\ fin.bucket = engine.current_bucket_map[c]
                    /\ \A s \in LaterSnapshots(c) :
                           \E r \in {Evaluate(engine, s)} :
                               /\ EventsFor(f.ret.events, c) = r.ret.events
                               /\ c \in DOMAIN f.e.prev_bucket_map
                               /\ c \in DOMAIN r.e.prev_bucket_map
                               /\ f.e.prev_bucket_map[c] = r.e.prev_bucket_map[c]
                               /\ ConfirmCount(f.e, c) = ConfirmCount(r.e, c)
                               /\ DictGet(f.e.fired_rules_map, c, {})
                                      = DictGet(r.e.fired_rules_map, c, {})
                               /\ c \in f.e.processed_set <=> c \in r.e.processed_set
               ELSE /\ EventsFor(f.ret.events, c) = {}
                    /\ \A fin \in f.ret.finalized : fin.code # c

\* one flush_pending call has returned an event for each of two symbols
C8_FlushAlertedTwoSymbols ==
    /\ lastCall.op = "flush_pending"
    /\ \A c \in Codes : EventsFor(lastRet, c) # {}

\* C9: live and replay agree: the replay reports triggered=true with a reason
\* exactly when the live loop (evaluate per snapshot, then flush_pending) hands
\* on a first event with that reason.
C9_LiveReplayAgree ==
    done = {"replay", "live"} =>
        \A reason \in {RULE_BUY_FLOW, RULE_SELL1_DROP, RULE_COMBINED} :
            (result.raised = "none" /\ result.triggered /\ result.reason = reason)
            <=> (live_events # <<>> /\ live_events[1].reason = reason)

\* rollover or flush would finalize c's first bucket since its state was empty
FirstBucketPending(c) ==
    /\ c \in MonitorableCodes(engine)
    /\ c \in DOMAIN engine.current_bucket_map
    /\ finalizedCount[c] = 0

\* what finalizing a first bucket does: no event, counter 0, bucket kept as the
\* previous one
SeedsOnly(c, r) ==
    /\ EventsFor(r.ret.events, c) = {}
    /\ c \in DOMAIN r.e.sell1_confirm_count_map
    /\ r.e.sell1_confirm_count_map[c] = 0
    /\ c \in DOMAIN r.e.prev_bucket_map
    /\ r.e.prev_bucket_map[c] = engine.current_bucket_map[c]

\* C10, as stated: the first finalized bucket only seeds the counter and the
\* previous slot, and an event comes only once a second bucket, of a different
\* minute, has been finalized.
C10_SecondBucketOfOtherMinute ==
    \A ev \in lastRet :
        /\ finalizedCount[ev.code] >= 2
        /\ MinuteKey(ev.prev_window_ts) # MinuteKey(ev.curr_window_ts)

\* C10, amended: the first bucket finalized for a symbol after registration or
\* after a reset of its runtime state returns no event, sets the counter to 0
\* and becomes the previous bucket; no event is returned for a symbol before a
\* second bucket has been finalized.  (The second bucket is of the same minute
\* when flush_pending finalized the first one before the minute was over.)
C10_FirstBucketSeedsOnly ==
    /\ \A ev \in lastRet : finalizedCount[ev.code] >= 2
    /\ \A c \in Codes :
           FirstBucketPending(c) =>
               /\ SeedsOnly(c, FlushPending(engine))
               /\ \A s \in LaterSnapshots(c) : SeedsOnly(c, Evaluate(engine, s))

\* a first bucket has been finalized and has only seeded the state
C10_FirstBucketFinalized ==
    \E c \in Codes :
        /\ finalizedCount[c] = 1
        /\ lastCall.op \in {"evaluate", "flush_pending"}
        /\ lastRet = {}
        /\ c \in DOMAIN engine.prev_bucket_map
        /\ ConfirmCount(engine, c) = 0
        /\ eventCount[c] = 0

\* the one-word snapshots of c stamped in the given minute
OneWordAt(c, minute) ==
    {StockSnapshot(c, prices, ask_v1, volume, data_quality,
                   [minute |-> minute, second |-> 0]) :
        prices \in {p \in PriceCases : OneWordPrices(p)}, ask_v1 \in inputs.asks,
        volume \in inputs.volumes, data_quality \in inputs.data_qualities}

\* c has no in-progress bucket, no previous bucket and no counter in e
ContextEmpty(e, c) ==
    /\ c \notin DOMAIN e.current_bucket_map
    /\ c \notin DOMAIN e.prev_bucket_map
    /\ c \notin DOMAIN e.sell1_confirm_count_map

\* C11: a snapshot that is not one-word, evaluated for a monitored symbol in
\* any state (in particular between two qualifying minutes, when a rule is due
\* on the pending pair), returns no event and drops the symbol's in-progress
\* bucket, previous bucket and counter; the next two one-word snapshots of the
\* symbol, in two distinct minutes, both return no event.
C11_GateBreakResets ==
    \A c \in MonitorableCodes(engine) :
        \A s \in SnapshotsOf(c) :
            ~is_one_word_limit_down(s) =>
                \E r \in {Evaluate(engine, s)} :
                    /\ r.ret.events = {}
                    /\ ContextEmpty(r.e, c)
                    /\ \A s1 \in OneWordAt(c, now.minute) :
                           \E r1 \in {Evaluate(r.e, s1)} :
                               /\ r1.ret.events = {}
                               /\ \A s2 \in OneWordAt(c, now.minute + 1) :
                                      Evaluate(r1.e, s2).ret.events = {}

\* a snapshot that is not one-word and does not breach has discarded a pair on
\* which a rule was due, and nothing was returned
C11_DueFiringLost ==
    /\ lastCall.op = "evaluate"
    /\ lastCall.lost
    /\ ~BreachPrices(lastCall.prices)
    /\ lastRet = {}
    /\ ContextEmpty(engine, lastCall.code)

\* C12: a snapshot that is not one-word and has high_price <= limit_down_price
\* does not evict: the active pool, the removed set, the silenced set and the
\* fired-rule marks are as before, the symbol is still monitorable, and only
\* the symbol's in-progress bucket, previous bucket and counter are dropped.
C12_GateBreakDoesNotEvict ==
    \A c \in MonitorableCodes(engine) :
        \A s \in SnapshotsOf(c) :
            (~is_one_word_limit_down(s) /\ s.high_price <= s.limit_down_price) =>
                \E r \in {Evaluate(engine, s)} :
                    /\ c \in MonitorableCodes(r.e)
                    /\ c \notin r.e.removed_pool
                    /\ r.e.active_pool = engine.active_pool
                    /\ r.e.removed_pool = engine.removed_pool
                    /\ r.e.processed_set = engine.processed_set
                    /\ r.e.fired_rules_map = engine.fired_rules_map
                    /\ ContextEmpty(r.e, c)
                    /\ \A d \in Codes \ {c} :
                           /\ d \in DOMAIN r.e.current_bucket_map
                                  <=> d \in DOMAIN engine.current_bucket_map
                           /\ d \in DOMAIN r.e.prev_bucket_map
                                  <=> d \in DOMAIN engine.prev_bucket_map
                           /\ d \in DOMAIN r.e.sell1_confirm_count_map
                                  <=> d \in DOMAIN engine.sell1_confirm_count_map

\* a symbol that had alerted once was handed a snapshot below the limit-down
\* price: it is still monitorable, its fired rule is still marked
C12_PartiallyFiredKept ==
    /\ lastCall.op = "evaluate"
    /\ ~OneWordPrices(lastCall.prices)
    /\ ~BreachPrices(lastCall.prices)
    /\ lastCall.code \in MonitorableCodes(engine)
    /\ eventCount[lastCall.code] = 1
    /\ DictGet(engine.fired_rules_map, lastCall.code, {}) = FiredSoFar(lastCall.code)
    /\ ContextEmpty(engine, lastCall.code)

\* what the evaluator was given and what it left
PairFired == DictGet(pair_in.e.fired_rules_map, pair_in.code, {})
PairCountBefore == DictGet(pair_in.e.sell1_confirm_count_map, pair_in.code, 0)
PairCountAfter == DictGet(pair_out[1].e.sell1_confirm_count_map, pair_in.code, 0)
PairBuyReported ==
    \E ev \in pair_out[1].ret.events : ev.reason \in {RULE_BUY_FLOW, RULE_COMBINED}

\* C13: on every evaluated pair the event reports buy-flow iff the rule has
\* not fired yet, previous.cumulativeVolume > 0 and
\* max(current.cumulativeVolume - previous.cumulativeVolume, 0) >
\* previous.cumulativeVolume; so not when the previous volume is 0 and not when
\* the volume did not grow.
C13_BuyFlowSignal ==
    pair_out # <<>> =>
        /\ PairBuyReported <=>
               /\ RULE_BUY_FLOW \notin PairFired
               /\ pair_in.previous.end_volume_total > 0
               /\ Max(pair_in.current.end_volume_total
                          - pair_in.previous.end_volume_total, 0)
                      > pair_in.previous.end_volume_total
        /\ pair_in.previous.end_volume_total = 0 => ~PairBuyReported
        /\ pair_in.current.end_volume_total <= pair_in.previous.end_volume_total
               => ~PairBuyReported

\* buy-flow alone has been reported on a pair whose volume more than doubled
C13_BuyFlowReported ==
    /\ pair_out # <<>>
    /\ \E ev \in pair_out[1].ret.events :
           /\ ev.reason = RULE_BUY_FLOW
           /\ ev.initial_volume > 0
           /\ ev.current_volume - ev.initial_volume > ev.initial_volume

\* the pair qualifies for sell-one-drop, as stated
PairAskDelta == pair_in.previous.last_ask_v1 - pair_in.current.last_ask_v1
PairQualifiesAsStated ==
    /\ PairAskDelta * pair_in.e.ask_drop_threshold.den
           >= pair_in.e.ask_drop_threshold.num * Max(pair_in.previous.last_ask_v1, 1)
    /\ PairAskDelta >= pair_in.e.min_abs_delta_ask

\* C14: on every evaluated pair the minute qualifies for sell-one-drop (the
\* counter goes up by one instead of back to 0, and the rule fires once the
\* counter reaches confirm_minutes) iff
\* (previous.askSize - current.askSize) / max(previous.askSize, 1) >=
\* ask_drop_threshold and previous.askSize - current.askSize >=
\* min_abs_delta_ask; with a positive threshold it does not qualify when the
\* previous ask size is 0 or the ask size did not decrease.
C14_Sell1Qualifies ==
    pair_out # <<>> =>
        /\ PairCountAfter = (IF PairQualifiesAsStated THEN PairCountBefore + 1 ELSE 0)
        /\ (\E ev \in pair_out[1].ret.events : ev.signal_ask_drop) <=>
               /\ RULE_SELL1_DROP \notin PairFired
               /\ PairQualifiesAsStated
               /\ PairCountBefore + 1 >= pair_in.e.confirm_minutes
        /\ (pair_in.e.ask_drop_threshold.num > 0
               /\ (pair_in.previous.last_ask_v1 = 0 \/ PairAskDelta <= 0))
               => PairCountAfter = 0

\* a pair has qualified under a floor of 2 and sell-one-drop was reported
C14_QualifiedOverFloor ==
    /\ pair_out # <<>>
    /\ pair_in.e.min_abs_delta_ask = 2
    /\ pair_in.e.ask_drop_threshold.num > 0
    /\ PairCountAfter = PairCountBefore + 1
    /\ \E ev \in pair_out[1].ret.events : ev.signal_ask_drop

\* C18: monitorable_codes() is exactly the registered symbols that are neither
\* removed nor fully silenced; the removed set and the active pool are
\* disjoint, the silenced set is inside the active pool, and active pool and
\* removed set together are the symbols of the last register_pool.
C18_PoolPartition ==
    /\ MonitorableCodes(engine) = (registered \ engine.removed_pool) \ engine.processed_set
    /\ engine.removed_pool \cap DOMAIN engine.active_pool = {}
    /\ engine.processed_set \subseteq DOMAIN engine.active_pool
    /\ DOMAIN engine.active_pool \cup engine.removed_pool = registered

\* of two registered symbols one has been removed and the other has alerted
\* and is still monitorable
C18_OneRemovedOneMonitored ==
    /\ registered = Codes
    /\ \E c \in Codes : \E d \in Codes :
           /\ c \in engine.removed_pool
           /\ d \in MonitorableCodes(engine)
           /\ eventCount[d] = 1

\* the engine of the same settings as e, just constructed
FreshEngine(e) ==
    [NewEngine(e.confirm_minutes, e.min_abs_delta_ask) EXCEPT
        !.ask_drop_threshold = e.ask_drop_threshold]

\* C19: register_pool, called in any state with any stocks, leaves the engine
\* as register_pool leaves a new engine: the active pool is the given stocks
\* and the removed set, silenced set, fired marks, buckets and counters are
\* empty; every given symbol is monitorable, also one removed or silenced
\* before, and since nothing of the past is left both rules can fire again.
C19_RegisterPoolResets ==
    \A stocks \in SUBSET inputs.codes :
        \E r \in {RegisterPool(engine, stocks)} :
            /\ DOMAIN r.active_pool = stocks
            /\ \A c \in stocks : r.active_pool[c] = PoolStock(c)
            /\ r.removed_pool = {}
            /\ r.processed_set = {}
            /\ r.fired_rules_map = EmptyDict
            /\ r.prev_bucket_map = EmptyDict
            /\ r.current_bucket_map = EmptyDict
            /\ r.sell1_confirm_count_map = EmptyDict
            /\ MonitorableCodes(r) = stocks
            /\ r = RegisterPool(FreshEngine(engine), stocks)

\* register_pool has just made a removed or silenced symbol monitorable again
C19_RevivedSymbolRegistered ==
    /\ lastCall.op = "register_pool"
    /\ lastCall.revived # {}
    /\ lastCall.revived \subseteq MonitorableCodes(engine)

\* ---------------------------------------------- properties of a session
\* The properties below are stated over the reachable states of SpecStream,
\* about every call of the session so far.

\* the engine before call number k
EngineBefore(k) == IF k = 1 THEN StreamStart ELSE trace[k - 1].e

\* C15: across any interleaving of evaluate and flush_pending calls no bucket
\* is finalized twice, and the rule evaluator is invoked at most once for a
\* pair of a previous and a newly finalized bucket of a symbol.
C15_FinalizedOnce ==
    \A j \in 1 .. Len(trace) : \A k \in 1 .. Len(trace) :
        j < k => /\ trace[j].finalized \cap trace[k].finalized = {}
                 /\ trace[j].pairs \cap trace[k].pairs = {}

\* an evaluate and a later flush_pending have each handed a pair of the same
\* symbol to the rule evaluator
C15_PairsByRolloverAndFlush ==
    \E j \in 1 .. Len(trace) : \E k \in 1 .. Len(trace) :
        /\ j < k
        /\ stream[j].op = "evaluate"
        /\ stream[k].op = "flush_pending"
        /\ \E p \in trace[j].pairs : \E q \in trace[k].pairs :
               p.code = q.code /\ q.previous = p.current

\* the buckets of one symbol that two calls finalized, the first call earlier,
\* are of two minutes in rising order
RisingMinutes(j, k) ==
    \A f \in trace[j].ret.finalized : \A g \in trace[k].ret.finalized :
        f.code = g.code =>
            /\ TsLess(f.bucket.minute_key, g.bucket.minute_key)
            /\ f.bucket.end_ts.minute < g.bucket.end_ts.minute

\* every pair call number k handed to the rule evaluator runs forward in time
PairsForward(k) ==
    \A p \in trace[k].ret.pairs : TsLess(p.previous.minute_key, p.current.minute_key)

\* flush_pending call number k finalized a bucket before its minute was over:
\* a later one-word snapshot of the symbol falls into the same minute
FlushSplitsMinute(k) ==
    /\ stream[k].op = "flush_pending"
    /\ \E f \in trace[k].ret.finalized : \E j \in 1 .. Len(stream) :
           /\ k < j
           /\ stream[j].op = "evaluate"
           /\ stream[j].snapshot.code = f.code
           /\ is_one_word_limit_down(stream[j].snapshot)
           /\ MinuteKey(stream[j].snapshot.ts) = f.bucket.minute_key

\* C16 as stated: with each symbol's snapshots in non-decreasing time order
\* the finalized buckets of a symbol have distinct, strictly increasing minute
\* keys, also when flush_pending is called between evaluate calls, and every
\* evaluated pair has previous.minute_key < current.minute_key.
C16_OneBucketPerMinute ==
    \A k \in 1 .. Len(trace) :
        /\ PairsForward(k)
        /\ \A j \in 1 .. k - 1 : RisingMinutes(j, k)

\* C16, amended: the above holds for every session in which flush_pending
\* finalizes no bucket whose minute receives a further one-word snapshot; in
\* every session the minute keys of a symbol's finalized buckets and of every
\* evaluated pair are non-decreasing.
C16_OneBucketPerFinishedMinute ==
    /\ (\A k \in 1 .. Len(trace) : ~FlushSplitsMinute(k)) => C16_OneBucketPerMinute
    /\ \A k \in 1 .. Len(trace) :
           /\ \A p \in trace[k].ret.pairs :
                  TsLeq(p.previous.minute_key, p.current.minute_key)
           /\ \A j \in 1 .. k - 1 :
                  \A f \in trace[j].ret.finalized : \A g \in trace[k].ret.finalized :
                      f.code = g.code => TsLeq(f.bucket.minute_key, g.bucket.minute_key)

\* flush_pending finalized a bucket between two evaluate calls of the symbol,
\* the next snapshot came in a later minute, and the bucket it opened has
\* been finalized against the flushed one
C16_FlushBetweenMinutes ==
    \E j \in 1 .. Len(trace) : \E k \in 1 .. Len(trace) :
        /\ j < k
        /\ stream[j].op = "flush_pending"
        /\ ~FlushSplitsMinute(j)
        /\ \E f \in trace[j].ret.finalized : \E p \in trace[k].ret.pairs :
               /\ p.code = f.code
               /\ p.previous = f.bucket
               /\ \E i \in 1 .. j - 1 : /\ stream[i].op = "evaluate"
                                         /\ stream[i].snapshot.code = f.code

\* call number k hands evaluate a one-word snapshot of a monitored symbol
\* whose minute key is that of the symbol's in-progress bucket
SameMinuteCall(k) ==
    /\ stream[k].op = "evaluate"
    /\ is_one_word_limit_down(stream[k].snapshot)
    /\ stream[k].snapshot.code \in MonitorableCodes(EngineBefore(k))
    /\ stream[k].snapshot.code \in DOMAIN EngineBefore(k).current_bucket_map
    /\ EngineBefore(k).current_bucket_map[stream[k].snapshot.code].minute_key
           = MinuteKey(stream[k].snapshot.ts)

\* C17: within one minute the bucket is last-observed-wins: a one-word
\* snapshot whose minute key equals that of the in-progress bucket replaces
\* the bucket's timestamp, cumulative volume, ask size and data-quality tag
\* with its own, returns no event, and leaves the previous bucket, the
\* confirmation counter and the fired-rule set (and all else) unchanged.
C17_LastObservedWins ==
    \A k \in 1 .. Len(trace) :
        SameMinuteCall(k) =>
            \E snapshot \in {stream[k].snapshot} : \E before \in {EngineBefore(k)} :
                /\ trace[k].e.current_bucket_map[snapshot.code] =
                       [minute_key |-> before.current_bucket_map[snapshot.code].minute_key,
                        end_ts |-> snapshot.ts,
                        end_volume_total |-> snapshot.volume,
                        last_ask_v1 |-> snapshot.ask_v1,
                        data_quality |-> snapshot.data_quality]
                /\ trace[k].ret = NoReturn
                /\ trace[k].e.prev_bucket_map = before.prev_bucket_map
                /\ trace[k].e.sell1_confirm_count_map = before.sell1_confirm_count_map
                /\ trace[k].e.fired_rules_map = before.fired_rules_map
                /\ trace[k].e =
                       [before EXCEPT !.current_bucket_map =
                            DictSet(@, snapshot.code, trace[k].e.current_bucket_map[snapshot.code])]

\* a symbol with a previous bucket got a second snapshot in the minute of its
\* in-progress bucket, and time, volume, ask size and quality tag all changed
C17_BucketOverwritten ==
    \E k \in 1 .. Len(trace) :
        /\ SameMinuteCall(k)
        /\ stream[k].snapshot.code \in DOMAIN EngineBefore(k).prev_bucket_map
        /\ \E old \in {EngineBefore(k).current_bucket_map[stream[k].snapshot.code]} :
           \E new \in {trace[k].e.current_bucket_map[stream[k].snapshot.code]} :
               /\ old.end_ts # new.end_ts
               /\ old.end_volume_total # new.end_volume_total
               /\ old.last_ask_v1 # new.last_ask_v1
               /\ old.data_quality # new.data_quality

\* everything the engine holds about symbol c
SymbolState(e, c) ==
    [active_pool |-> IF c \in DOMAIN e.active_pool THEN {e.active_pool[c]} ELSE {},
     removed_pool |-> c \in e.removed_pool,
     processed_set |-> c \in e.processed_set,
     fired_rules_map |-> IF c \in DOMAIN e.fired_rules_map THEN {e.fired_rules_map[c]} ELSE {},
     prev_bucket_map |-> IF c \in DOMAIN e.prev_bucket_map THEN {e.prev_bucket_map[c]} ELSE {},
     current_bucket_map |->
         IF c \in DOMAIN e.current_bucket_map THEN {e.current_bucket_map[c]} ELSE {},
     sell1_confirm_count_map |->
         IF c \in DOMAIN e.sell1_confirm_count_map THEN {e.sell1_confirm_count_map[c]} ELSE {}]

\* the calls of a session that concern symbol c: its snapshots and the flushes
CallsOf(calls, c) ==
    SelectSeq(calls, LAMBDA call : call.op = "flush_pending" \/ call.snapshot.code = c)

\* what the calls return for symbol c, call by call, starting on engine e
RECURSIVE EventsOfRun(_, _, _)
EventsOfRun(e, calls, c) ==
    IF calls = <<>> THEN <<>>
    ELSE <<EventsFor(Applied(e, Head(calls)).ret.events, c)>>
             \o EventsOfRun(Applied(e, Head(calls)).e, Tail(calls), c)

\* what the session so far returned for symbol c, over the calls that concern it
RECURSIVE EventsInTrace(_, _)
EventsInTrace(k, c) ==
    IF k = 0 THEN <<>>
    ELSE IF stream[k].op = "flush_pending" \/ stream[k].snapshot.code = c
    THEN Append(EventsInTrace(k - 1, c), EventsFor(trace[k].ret.events, c))
    ELSE EventsInTrace(k - 1, c)

\* C20: symbols are independent: evaluate of a snapshot of symbol A leaves
\* every piece of state of any other symbol B unchanged and returns nothing
\* for B, and with each symbol's snapshots in time order the events emitted
\* for a symbol are those of the symbol's own calls run alone, so they are the
\* same under every interleaving of the symbols' snapshots.
C20_SymbolsIndependent ==
    /\ \A k \in 1 .. Len(trace) :
           stream[k].op = "evaluate" =>
               \A b \in Codes \ {stream[k].snapshot.code} :
                   /\ SymbolState(trace[k].e, b) = SymbolState(EngineBefore(k), b)
                   /\ EventsFor(trace[k].ret.events, b) = {}
    /\ \A c \in inputs.codes :
           EventsInTrace(Len(trace), c) = EventsOfRun(StreamStart, CallsOf(stream, c), c)

\* a symbol has alerted although a snapshot of the other symbol came between
\* the snapshots of its two buckets
C20_AlertAcrossInterleaving ==
    \E i \in 1 .. Len(trace) : \E j \in 1 .. Len(trace) : \E k \in 1 .. Len(trace) :
        /\ i < j /\ j < k
        /\ stream[i].op = "evaluate" /\ stream[j].op = "evaluate"
        /\ stream[j].snapshot.code # stream[i].snapshot.code
        /\ stream[j].snapshot.code \in DOMAIN trace[j].e.current_bucket_map
        /\ \E ev \in trace[k].ret.events : \E p \in trace[k].pairs :
               /\ ev.code = stream[i].snapshot.code
               /\ p.code = ev.code
               /\ p.previous = i
               /\ p.current > j

\* ------------------------------------------- properties of a single call
\* The properties below are stated over the reachable states of SpecTotal.

\* the values an engine holds are those the code can compute with: counters
\* and bucket sizes are not negative
SoundValues(e) ==
    /\ \A c \in DOMAIN e.sell1_confirm_count_map : e.sell1_confirm_count_map[c] >= 0
    /\ \A c \in DOMAIN e.current_bucket_map :
           /\ e.current_bucket_map[c].end_volume_total >= 0
           /\ e.current_bucket_map[c].last_ask_v1 >= 0
    /\ \A c \in DOMAIN e.prev_bucket_map :
           /\ e.prev_bucket_map[c].end_volume_total >= 0
           /\ e.prev_bucket_map[c].last_ask_v1 >= 0

\* C21: evaluate and flush_pending are total: for every snapshot content
\* (zero or negative ask size or volume, zero prices, previous ask size 0,
\* unregistered code, call before any register_pool) they return an event or
\* nothing and never end in an error: both quotients of the rule evaluator
\* have a divisor of at least 1 and the values kept are sound; an evaluate
\* for an unregistered code changes no state.
C21_CallsAreTotal ==
    pair_out # <<>> =>
        /\ pair_in.call.op = "evaluate" => Cardinality(pair_out[1].ret.events) <= 1
        /\ \A p \in pair_out[1].ret.pairs : AskBase(p.previous) >= 1
        /\ \A ev \in pair_out[1].ret.events :
               /\ ev.drop_ratio.den >= 1
               /\ ev.volume_change_ratio.den >= 1
        /\ SoundValues(pair_out[1].e)
        /\ (/\ pair_in.call.op = "evaluate"
            /\ pair_in.call.snapshot.code \notin DOMAIN pair_in.e.active_pool)
           => pair_out[1] = [e |-> pair_in.e, ret |-> NoReturn]

\* a call has returned an event on a pair whose previous ask size is 0 and
\* whose previous volume is 0
C21_EventOnZeroAsk ==
    /\ pair_out # <<>>
    /\ \E ev \in pair_out[1].ret.events :
           /\ ev.initial_ask_v1 = 0
           /\ ev.initial_volume = 0

\* ------------------------------------------- properties of one replay
\* The properties below are stated over the reachable states of SpecRun.

\* C23: for every bar set run_single_day_backtest returns a structured
\* BacktestResult carrying a reason and never ends in an error, also when the
\* run ends as threshold_not_met or insufficient_data after a bucket has been
\* finalized.
C23_AlwaysAResult ==
    done # {} => (result.raised = "none" /\ result.reason # "")

\* the bars of the day inside the window, both ends included
BarsInWindow ==
    {k \in 1 .. Len(raw_bars) :
        /\ TsLeq(request.window_start, raw_bars[k].ts)
        /\ TsLeq(raw_bars[k].ts, request.window_end)}

\* every bar of the day has every required field
WellFormedDay == \A k \in 1 .. Len(raw_bars) : ~MapperRaises(raw_bars[k])

OneWordBar(bar) ==
    /\ DictGet(bar, "close", 0) = bar.limit_down_price
    /\ DictGet(bar, "high", 0) = bar.limit_down_price

\* the reason the diagnostic priority gives a day without a firing
PriorityReason ==
    IF raw_bars = <<>> THEN "no_data"
    ELSE IF BarsInWindow = {} THEN "no_data_in_window"
    ELSE IF \A k \in BarsInWindow : ~OneWordBar(raw_bars[k]) THEN "no_one_word_limit_down"
    ELSE "threshold_not_met"

\* C22: a replay of well-formed bars that ends without a firing returns the
\* reason of the diagnostic priority (no_data, no_data_in_window,
\* no_one_word_limit_down, threshold_not_met), with samples the number of raw
\* bars and samples_in_window the number of in-window bars.
C22_ReasonByPriority ==
    (/\ done # {}
     /\ WellFormedDay
     /\ ~(result.raised = "none" /\ result.triggered))
    => /\ result.raised = "none"
       /\ result.reason = PriorityReason
       /\ result.samples = Len(raw_bars)
       /\ result.samples_in_window = Cardinality(BarsInWindow)

\* the replay loop stopped at an in-window bar that lacks a required field,
\* no evaluate before it having returned an event
StoppedAtBadBar ==
    /\ \A k \in 1 .. Len(raw_bars) : ~TsRaises(raw_bars[k])
    /\ EvaluatedSnapshots(request, raw_bars).events = {}
    /\ Len(EvaluatedSnapshots(request, raw_bars).calls) < Len(WindowedBars(request, raw_bars))

\* the previous bucket the engine holds for the request's code, if any
LastPoint ==
    {EvaluatedSnapshots(request, raw_bars).e.prev_bucket_map[c] :
        c \in {request.code} \cap DOMAIN EvaluatedSnapshots(request, raw_bars).e.prev_bucket_map}

\* C24: the first in-window bar with a missing required field that is reached
\* before any firing stops the replay with triggered=false and reason
\* insufficient_data; the result carries the timestamp, ask size and volume of
\* the last finalized previous bucket, or nulls if there is none, and no
\* current window.
C24_BadBarStopsReplay ==
    (done # {} /\ StoppedAtBadBar) =>
        /\ result.raised = "none"
        /\ ~result.triggered
        /\ result.reason = "insufficient_data"
        /\ result.samples = Len(raw_bars)
        /\ result.samples_in_window = Len(WindowedBars(request, raw_bars))
        /\ result.curr_window_ts = {}
        /\ result.prev_window_ts = {last_point.end_ts : last_point \in LastPoint}
        /\ result.prev_ask_v1 = {last_point.last_ask_v1 : last_point \in LastPoint}
        /\ result.prev_volume = {last_point.end_volume_total : last_point \in LastPoint}

\* --------------------------------- properties of a replay in any order
\* The property below is stated over the reachable states of SpecOrder.

\* C25: replay is deterministic and independent of the order of the bars: for
\* bars with pairwise distinct timestamps every permutation of the day gives
\* the same BacktestResult as the order that was replayed.
C25_OrderIndependent ==
    done # {} =>
        \A f \in Orderings(Len(raw_bars)) :
            RunSingleDayBacktest(request, Reordered(raw_bars, f)) = result

\* a day of three bars that the provider returned out of order has triggered
C25_UnorderedDayTriggered ==
    /\ done # {}
    /\ Len(raw_bars) = 3
    /\ \E k \in 1 .. 2 : TsLess(raw_bars[k + 1].ts, raw_bars[k].ts)
    /\ result.raised = "none"
    /\ result.triggered

\* the engine after the first n of the calls, from the request's new engine
RECURSIVE AfterCalls(_, _)
AfterCalls(calls, n) ==
    IF n = 0 THEN RequestStrategy(request)
    ELSE Evaluate(AfterCalls(calls, n - 1), calls[n]).e

\* the day without its bars outside the window
InWindowOnly ==
    LET Inside(bar) ==
            TsLeq(request.window_start, bar.ts) /\ TsLeq(bar.ts, request.window_end)
    IN  SelectSeq(raw_bars, Inside)

\* C26: only the bars with window_start <= ts <= window_end are handed to the
\* engine, in ascending timestamp order; the bars outside the window change
\* neither the calls nor the engine state; and the replay stops at the first
\* evaluate that returns an event, which is the one the result reports.
C26_WindowedAscendingUntilEvent ==
    (done # {} /\ \A k \in 1 .. Len(raw_bars) : ~TsRaises(raw_bars[k])) =>
        \A run \in {EvaluatedSnapshots(request, raw_bars)} :
            /\ \A k \in 1 .. Len(run.calls) :
                   /\ TsLeq(request.window_start, run.calls[k].ts)
                   /\ TsLeq(run.calls[k].ts, request.window_end)
                   /\ k > 1 => TsLess(run.calls[k - 1].ts, run.calls[k].ts)
                   /\ Evaluate(AfterCalls(run.calls, k - 1), run.calls[k]).ret.events
                      = IF k < Len(run.calls) THEN {} ELSE run.events
            /\ (run.events = {} /\ WellFormedDay) => Len(run.calls) = Cardinality(BarsInWindow)
            /\ EvaluatedSnapshots(request, InWindowOnly) = run
            /\ run.events # {} <=> (result.raised = "none" /\ result.triggered)

\* a day returned in descending order has triggered with an in-window bar
\* left that was never evaluated
C26_StoppedBeforeLastBar ==
    /\ done # {}
    /\ \A k \in 1 .. Len(raw_bars) : ~TsRaises(raw_bars[k])
    /\ Len(raw_bars) > 1
    /\ \A k \in 2 .. Len(raw_bars) : TsLess(raw_bars[k].ts, raw_bars[k - 1].ts)
    /\ result.raised = "none"
    /\ result.triggered
    /\ Len(EvaluatedSnapshots(request, raw_bars).calls) < Cardinality(BarsInWindow)

\* C27: the buy-flow scenario (volumes 100 and 200 at 09:31 and 09:32 outside
\* the window, one-word bars of volume 50 at 13:01 and 400 at 13:02 inside it)
\* returns triggered=true with reason buy_flow_breakout, reported on the
\* second in-window bar, with current_buy_volume=400 and
\* cumulative_buy_volume_before=350.
C27_BuyFlowScenario ==
    (/\ done # {}
     /\ request = BuyFlowScenario.request
     /\ raw_bars = BuyFlowScenario.raw_bars)
    => /\ result.raised = "none"
       /\ result.triggered
       /\ result.reason = RULE_BUY_FLOW
       /\ result.trigger_time = {Ts(782)}
       /\ "current_buy_volume" \in DOMAIN result
       /\ result.current_buy_volume = {400}
       /\ "cumulative_buy_volume_before" \in DOMAIN result
       /\ result.cumulative_buy_volume_before = {350}

\* C28: the sell-one scenario (confirm_minutes=2, ask_drop_threshold=0.3, ask
\* sizes 1000, 600, 300 in three consecutive one-word in-window minutes)
\* returns triggered=true on the third minute with a reason that includes
\* sell1_drop, the previous window being the second bar and the current
\* window the third.
C28_SellOneScenario ==
    (/\ done # {}
     /\ request = SellOneScenario.request
     /\ raw_bars = SellOneScenario.raw_bars)
    => /\ result.raised = "none"
       /\ result.triggered
       /\ result.reason \in {RULE_SELL1_DROP, RULE_COMBINED}
       /\ result.prev_window_ts = {Ts(841)}
       /\ result.curr_window_ts = {Ts(842)}
       /\ result.prev_ask_v1 = {600}
       /\ result.curr_ask_v1 = {300}

\* C29: in every triggered BacktestResult trigger_time equals curr_window_ts,
\* prev_window_ts is the timestamp of the in-window bar finalized just before
\* the current one, and prev_window_ts < curr_window_ts.
C29_TriggerTimeIsCurrentWindow ==
    (done # {} /\ result.raised = "none" /\ result.triggered) =>
        /\ result.trigger_time = result.curr_window_ts
        /\ \A prev \in result.prev_window_ts : \A curr \in result.curr_window_ts :
               /\ TsLess(prev, curr)
               /\ \E k \in BarsInWindow : raw_bars[k].ts = prev
               /\ \E k \in BarsInWindow : raw_bars[k].ts = curr
               /\ ~\E k \in BarsInWindow :
                      TsLess(prev, raw_bars[k].ts) /\ TsLess(raw_bars[k].ts, curr)

\* C30: with signal_combination = "and" a pair on which only the ask size
\* dropped does not trigger; a triggered result reports a pair on which the
\* ask drop and the volume increase hold together, with signal_ask_drop and
\* signal_volume_spike both true.
C30_AndNeedsBothSignals ==
    (/\ done # {}
     /\ request.signal_combination = "and"
     /\ result.raised = "none"
     /\ result.triggered)
    => /\ result.signal_ask_drop
       /\ result.signal_volume_spike
       /\ \A prev \in result.prev_volume : \A curr \in result.curr_volume : curr > prev

\* ------------------------------------------- properties of the normalizer
\* The property below is stated over the reachable states of SpecNormalize.

\* C31: the backtest normalizer rejects with an error, without producing a
\* snapshot, every minute bar in which a required field (timestamp, close,
\* high, limit-down price, ask size, cumulative volume) is missing or a
\* placeholder; no such field is coerced to zero.
C31_PlaceholdersRejected ==
    (/\ pair_out # <<>>
     /\ \E field \in RequiredFields : IsPlaceholder(pair_in, field))
    => pair_out[1].raised = "ValueError"

\* ------------------------------------------- properties of the fired marks
\* The properties below are stated over the reachable states of Spec.

\* C34: in every reachable state a symbol is in the fully-silenced set iff its
\* fired-rule set contains both buy_flow_breakout and sell1_drop; a symbol with
\* zero or one fired rule is never silenced.
C34_SilencedIffBothFired ==
    \A code \in Codes :
        code \in engine.processed_set
        <=> /\ code \in DOMAIN engine.fired_rules_map
            /\ {RULE_BUY_FLOW, RULE_SELL1_DROP} \subseteq engine.fired_rules_map[code]

\* a symbol is silenced with both rules fired, each by an event of its own
C34_SilencedAfterSecondRule ==
    /\ \E code \in engine.processed_set :
           /\ code \in DOMAIN engine.fired_rules_map
           /\ engine.fired_rules_map[code] = {RULE_BUY_FLOW, RULE_SELL1_DROP}
           /\ eventCount[code] = 2

\* C35: between two register_pool calls summary()'s triggered_buy_flow and
\* triggered_sell1_drop equal the number of symbols for which an event with
\* that signal has been emitted (and so never decrease), also after a
\* partially-fired symbol is removed for trading above its limit-down price.
C35_SummaryCountsEmitted ==
    /\ Summary(engine).triggered_buy_flow
       = Cardinality({c \in Codes : emitted[c][RULE_BUY_FLOW] >= 1})
    /\ Summary(engine).triggered_sell1_drop
       = Cardinality({c \in Codes : emitted[c][RULE_SELL1_DROP] >= 1})

\* ------------------------------------------- properties of a returned event
\* The property below is stated over the reachable states of SpecStream.

\* the event reports the pair of the previous bucket and the bucket in
\* progress that engine before held for the event's code
DescribesCompleted(ev, before) ==
    /\ ev.code \in DOMAIN before.prev_bucket_map
    /\ ev.code \in DOMAIN before.current_bucket_map
    /\ ev.initial_ask_v1 = before.prev_bucket_map[ev.code].last_ask_v1
    /\ ev.current_ask_v1 = before.current_bucket_map[ev.code].last_ask_v1
    /\ ev.initial_volume = before.prev_bucket_map[ev.code].end_volume_total
    /\ ev.current_volume = before.current_bucket_map[ev.code].end_volume_total
    /\ ev.prev_window_ts = before.prev_bucket_map[ev.code].end_ts
    /\ ev.curr_window_ts = before.current_bucket_map[ev.code].end_ts
    /\ ev.data_quality = before.current_bucket_map[ev.code].data_quality
    /\ ev.confidence = "high" <=> before.current_bucket_map[ev.code].data_quality = "tick_a1v"

\* the event carries both buy-flow volume fields with a value
HasBuyFlowFields(ev) ==
    /\ "current_buy_volume" \in DOMAIN ev
    /\ "cumulative_buy_volume_before" \in DOMAIN ev
    /\ ev.current_buy_volume # {}
    /\ ev.cumulative_buy_volume_before # {}

\* C36: every event returned by evaluate describes the bucket that was just
\* completed, never the incoming snapshot: its ask sizes, volumes and window
\* timestamps are those of the previous and the completed bucket, its
\* confidence is high iff the completed bucket's data quality is tick_a1v, and
\* the buy-flow volume fields are present iff the buy-flow signal is true.
C36_EventDescribesCompletedBucket ==
    \A k \in 1 .. Len(trace) :
        stream[k].op = "evaluate" =>
            \A ev \in trace[k].ret.events :
                /\ ev.code = stream[k].snapshot.code
                /\ DescribesCompleted(ev, EngineBefore(k))
                /\ HasBuyFlowFields(ev) <=> ev.reason \in {RULE_BUY_FLOW, RULE_COMBINED}


\* ------------------------------------------- properties of a live session
\* the deliveries of event so far, by their positions in the sink
Deliveries(event) == {j \in 1 .. Len(sink) : sink[j].event = event}
Delivered == {j \in 1 .. Len(sink) : sink[j].ok}

Fetched == live'.rounds = live.rounds + 1 /\ live'.left_loop = "no"
\* a step that left the while loop by its condition or by the break
LeftLoop == live.left_loop = "no" /\ live'.left_loop # "no"

LiveEnded == live.pc \in {"returned", "raised", "cancelled"}

SnapshotsFor(code) == {k \in 1 .. Len(fetcher.result) : fetcher.result[k].code = code}

\* C33: no task of a fetch_snapshots call raises and the call does not
\* raise; when it has returned it has made at most RETRY_ATTEMPTS requests
\* for each code; a code whose requests all failed, or whose answer
\* _to_snapshot could not parse, has no snapshot in the result; no requested
\* code has more than one; and every code whose answer was parsed has its
\* snapshot in the result, whatever happened to the others.
C33_BestEffortPerSymbol ==
    /\ fetcher.pc # "raised"
    /\ \A i \in 1 .. Len(fetcher.tasks) : fetcher.tasks[i].pc # "raised"
    /\ fetcher.pc = "returned" =>
        /\ Len(fetcher.result) <= Len(fetcher.codes)
        /\ \A i \in 1 .. Len(fetcher.tasks) :
            LET task == fetcher.tasks[i]
            IN  /\ task.attempts <= RETRY_ATTEMPTS
                /\ task.last \in {"refused", "not_json"} => task.attempts = RETRY_ATTEMPTS
                /\ task.last # "parsed" => SnapshotsFor(task.code) = {}
                /\ Cardinality(SnapshotsFor(task.code)) <= 1
                /\ task.last = "parsed" =>
                       \E k \in 1 .. Len(fetcher.result) : {fetcher.result[k]} = task.item

\* one symbol was given up after its retries and the other symbol's snapshot
\* was returned
C33_OneDroppedOneReturned ==
    /\ fetcher.pc = "returned"
    /\ Len(fetcher.codes) = 2
    /\ Len(fetcher.result) = 1
    /\ \E i \in 1 .. 2 : /\ fetcher.tasks[i].last \in {"refused", "not_json"}
                         /\ fetcher.tasks[i].attempts = RETRY_ATTEMPTS
                         /\ SnapshotsFor(fetcher.tasks[3 - i].code) # {}


\* ------------------------------------------- properties of the scheduler
\* steps of the scheduler: it calls run_live, it starts the pre-open scan, it
\* runs an iteration of its loop
LaunchStep == sched.pc # "in_run_live" /\ sched'.pc = "in_run_live"
ScanStep == sched.pc # "scanning" /\ sched'.pc = "scanning"
RoundStep == sched.pc = "top" /\ sched' # sched

====
